---- MODULE Spec2Model ----
(***************************************************************************)
(* A model of the BSON codec of pycomba/gbbs/bson.py: the element codes,   *)
(* the per-type encode and decode functions, the big-number extension      *)
(* (Binary / Custom), BSONEncoder and BSONDecoder.                         *)
(*                                                                         *)
(* Representation of the Python values the codec handles:                  *)
(*   bytes     a sequence of 0..255                                        *)
(*   int       [k |-> "int", neg, mag]: sign and magnitude, the magnitude  *)
(*             in base 256, most significant digit first, no leading zero  *)
(*             (Python integers are unbounded)                             *)
(*   Decimal   [k |-> "Decimal", sign, digits, exp]: as Decimal.as_tuple() *)
(*   str       [k |-> "str", cp]: the sequence of code points              *)
(*   float     [k |-> "float", bits]: the IEEE-754 binary64 pattern, most  *)
(*             significant byte first                                      *)
(*   UUID      [k |-> "UUID", bytes]: the 16 bytes of UUID.bytes           *)
(*   dict      [k |-> "dict", items]: the sequence of <<key, value>>       *)
(*   list      [k |-> "list", items], tuple likewise                       *)
(* A call's outcome is [ok |-> TRUE, ...] or [ok |-> FALSE, err |-> E],    *)
(* E the name of the Python exception raised.                              *)
(***************************************************************************)
EXTENDS Integers, Sequences, FiniteSets, TLC

VARIABLES dflt_encoder_map, encoders, decoders, stream, call,
          args, pipe, threads, ext_encoder_map, json_encoders

\* the state the operations on single BSONEncoder and BSONDecoder instances leave alone
others == <<pipe, threads, ext_encoder_map, json_encoders>>

vars == <<dflt_encoder_map, encoders, decoders, stream, call, args, others>>

----------------------------------------------------------------------------
(* Bounds of the model *)

\* longest magnitude, in bytes, of the integers encoded
MaxIntBytes == 12
\* longest coefficient, in decimal digits, of the Decimals encoded
MaxDigits == 29

----------------------------------------------------------------------------
(* Sequences of digits *)

Reverse(s) == [i \in 1..Len(s) |-> s[Len(s) + 1 - i]]

Rep(x, n) == [i \in 1..n |-> x]

Min(a, b) == IF a < b THEN a ELSE b

Max(a, b) == IF a > b THEN a ELSE b

RECURSIVE Strip(_)
\* s without its leading zero digits
Strip(s) == IF s # <<>> /\ s[1] = 0 THEN Strip(Tail(s)) ELSE s

\* the decimal coefficient of a Decimal has at least one digit
StripD(s) == IF Strip(s) = <<>> THEN <<0>> ELSE Strip(s)

RECURSIVE DivSmallAcc(_, _, _, _, _, _)
DivSmallAcc(s, B, d, i, q, r) ==
    IF i > Len(s) THEN [q |-> q, r |-> r]
    ELSE LET cur == r * B + s[i]
         IN  DivSmallAcc(s, B, d, i + 1, Append(q, cur \div d), cur % d)

\* quotient and remainder of the base B number s by the small number d
DivSmall(s, B, d) == DivSmallAcc(s, B, d, 1, <<>>, 0)

RECURSIVE Convert(_, _, _)
\* the digits in base C of the number whose digits in base B are s
Convert(s, B, C) ==
    IF Strip(s) = <<>> THEN <<>>
    ELSE LET qr == DivSmall(Strip(s), B, C)
         IN  Append(Convert(qr.q, B, C), qr.r)

RECURSIVE CarryAcc(_, _, _, _, _)
CarryAcc(c, B, i, carry, out) ==
    IF carry < 0 \/ Len(out) < 0 THEN <<>>
    ELSE IF i = 0 THEN (IF carry = 0 THEN out ELSE Convert(<<carry>>, B * B * B, B) \o out)
    ELSE CarryAcc(c, B, i - 1, (c[i] + carry) \div B, <<(c[i] + carry) % B>> \o out)

\* the digits in base B of the number with the (unnormalised) digits c[1..i],
\* carry added to the last of them
Carry(c, B, i, carry) == CarryAcc(c, B, i, carry, <<>>)

RECURSIVE ConvSum(_, _, _, _, _)
\* the sum of a[i] * b[k - i + 1] for i in lo..hi
ConvSum(a, b, k, lo, hi) ==
    IF lo > hi THEN 0 ELSE a[lo] * b[k - lo + 1] + ConvSum(a, b, k, lo + 1, hi)

\* product of the base B numbers a and b
MulSeq(a, b, B) ==
    IF a = <<>> \/ b = <<>> THEN <<>>
    ELSE LET c == [k \in 1..(Len(a) + Len(b) - 1) |->
                      ConvSum(a, b, k, Max(1, k - Len(b) + 1), Min(Len(a), k))]
         IN  Strip(Carry(c, B, Len(c), 0))

\* sum of the base B number a and the small number n
AddSmall(a, n, B) ==
    IF a = <<>> THEN Convert(<<n>>, B * B, B)
    ELSE Strip(Carry([a EXCEPT ![Len(a)] = @ + n], B, Len(a), 0))

RECURSIVE Pow10Bytes(_)
\* 10 ** e as a Python int: its magnitude in base 256
Pow10Bytes(e) ==
    IF e = 0 THEN <<1>>
    ELSE LET h  == Pow10Bytes(e \div 2)
             sq == MulSeq(h, h, 256)
         IN  IF e % 2 = 1 THEN MulSeq(sq, <<10>>, 256) ELSE sq

----------------------------------------------------------------------------
(* Python int *)

MkInt(neg, mag) ==
    [k |-> "int", neg |-> neg /\ Strip(mag) # <<>>, mag |-> Strip(mag)]

\* a small natural number (a length, an index) as a Python int
PyInt(n) == MkInt(n < 0, Convert(<<IF n < 0 THEN -n ELSE n>>, 16777216 * 64, 256))

RECURSIVE NatOf(_, _)
NatOf(mag, i) == IF i = 0 THEN 0 ELSE NatOf(mag, i - 1) * 256 + mag[i]

\* a Python int of small magnitude as a number of the model
SmallInt(v) == IF v.neg THEN -NatOf(v.mag, Len(v.mag)) ELSE NatOf(v.mag, Len(v.mag))

Raise(e) == [ok |-> FALSE, err |-> e]

\* two's complement negation of a fixed width base 256 number
Negate(p) == Carry([i \in 1..Len(p) |-> IF i = Len(p) THEN 256 - p[i] ELSE 255 - p[i]],
                   256, Len(p), 0)

NegateW(p) == LET n == Negate(p) IN SubSeq(n, Len(n) - Len(p) + 1, Len(n))

\* struct's range check of a signed integer of w bytes
FitsSigned(val, w) ==
    LET n == Len(val.mag)
    IN  \/ n < w
        \/ n = w /\ val.mag[1] < 128
        \/ n = w /\ val.neg /\ val.mag[1] = 128 /\ \A i \in 2..w : val.mag[i] = 0

\* pack('<i', val) for w = 4 and pack('<q', val) for w = 8
pack_signed(val, w) ==
    IF ~FitsSigned(val, w) THEN Raise("StructError")
    ELSE LET p == Rep(0, w - Len(val.mag)) \o val.mag
         IN  [ok |-> TRUE, b |-> Reverse(IF val.neg THEN NegateW(p) ELSE p)]

\* unpack('<i', buf)[0] for w = 4 and unpack('<q', buf)[0] for w = 8
unpack_signed(buf, w) ==
    IF Len(buf) # w THEN Raise("StructError")
    ELSE LET p == Reverse(buf)
         IN  [ok |-> TRUE,
              val |-> IF p[1] >= 128 THEN MkInt(TRUE, NegateW(p)) ELSE MkInt(FALSE, p)]

pack_i32(i) == pack_signed(i, 4)

unpack_i32(buf) == unpack_signed(buf, 4)

----------------------------------------------------------------------------
(* Some constants, the BSON element codes and binary subtype codes *)

ZERO == 0
ONE == 1
BSON_FLOAT == 1
BSON_STRING == 2
BSON_DOCUMENT == 3
BSON_ARRAY == 4
BSON_BINARY == 5
BSON_BOOLEAN == 8
BSON_DATETIME == 9
BSON_NULL == 10
BSON_INT32 == 16
BSON_INT64 == 18
BSON_BINARY_GENERIC == 0
BSON_BINARY_UUID == 4
BSON_BINARY_CUSTOM == 128

----------------------------------------------------------------------------
(* Python Decimal, under the default context *)

\* the precision of the arithmetic context decimal2bson and bson2decimal run in
DecimalPrec == 28

MkDec(sign, digits, exp) ==
    [k |-> "Decimal", sign |-> sign, digits |-> digits, exp |-> exp]

\* the context's rounding of a result (ROUND_HALF_EVEN to DecimalPrec digits)
DecFix(d) ==
    LET n == Len(d.digits)
    IN  IF n <= DecimalPrec THEN d
        ELSE LET keep == SubSeq(d.digits, 1, DecimalPrec)
                 rest == SubSeq(d.digits, DecimalPrec + 1, n)
                 more == \E i \in 2..Len(rest) : rest[i] # 0
                 up   == \/ rest[1] > 5
                         \/ rest[1] = 5 /\ more
                         \/ rest[1] = 5 /\ ~more /\ keep[DecimalPrec] % 2 = 1
                 inc  == IF up THEN AddSmall(keep, 1, 10) ELSE keep
             IN  IF Len(inc) > DecimalPrec
                 THEN MkDec(d.sign, SubSeq(inc, 1, DecimalPrec),
                            d.exp + (n - DecimalPrec) + 1)
                 ELSE MkDec(d.sign, inc, d.exp + (n - DecimalPrec))

\* abs(d)
DecAbs(d) == DecFix(MkDec(0, d.digits, d.exp))

\* a * b
DecMul(a, b) ==
    DecFix(MkDec((a.sign + b.sign) % 2,
                 StripD(MulSeq(Strip(a.digits), Strip(b.digits), 10)),
                 a.exp + b.exp))

\* Decimal(10) ** e, e an integer
DecPow10(e) ==
    IF e < 0 THEN MkDec(0, <<1>>, e)
    ELSE MkDec(0, <<1>> \o Rep(0, Min(e, DecimalPrec - 1)), Max(0, e - (DecimalPrec - 1)))

\* int(d)
DecToInt(d) ==
    IF d.exp >= 0 THEN MkInt(d.sign = 1, Convert(d.digits \o Rep(0, d.exp), 10, 256))
    ELSE MkInt(d.sign = 1, Convert(SubSeq(d.digits, 1, Len(d.digits) + d.exp), 10, 256))

\* Decimal(i), i an int
IntToDec(i) == MkDec(IF i.neg THEN 1 ELSE 0, StripD(Convert(i.mag, 256, 10)), 0)

----------------------------------------------------------------------------
(* UTF-8 *)

Utf8Char(c) ==
    IF c < 128 THEN <<c>>
    ELSE IF c < 2048 THEN <<192 + (c \div 64), 128 + (c % 64)>>
    ELSE IF c < 65536 THEN <<224 + (c \div 4096), 128 + ((c \div 64) % 64), 128 + (c % 64)>>
    ELSE <<240 + (c \div 262144), 128 + ((c \div 4096) % 64), 128 + ((c \div 64) % 64),
           128 + (c % 64)>>

RECURSIVE Utf8Encode(_)
\* s.encode('utf8')
Utf8Encode(cp) == IF cp = <<>> THEN <<>> ELSE Utf8Char(cp[1]) \o Utf8Encode(Tail(cp))

IsCont(b, i) == i <= Len(b) /\ b[i] \in 128..191

RECURSIVE Utf8DecodeAcc(_, _, _)
Utf8DecodeAcc(b, i, acc) ==
    IF i > Len(b) THEN [ok |-> TRUE, cp |-> acc]
    ELSE LET x == b[i]
         IN  IF x < 128 THEN Utf8DecodeAcc(b, i + 1, Append(acc, x))
             ELSE IF x \in 194..223 /\ IsCont(b, i + 1)
             THEN Utf8DecodeAcc(b, i + 2, Append(acc, (x - 192) * 64 + (b[i + 1] - 128)))
             ELSE IF x \in 224..239 /\ IsCont(b, i + 1) /\ IsCont(b, i + 2)
                     /\ (x - 224) * 4096 + (b[i + 1] - 128) * 64 >= 2048
                     /\ (x - 224) * 4096 + (b[i + 1] - 128) * 64 \notin 55296..57343
             THEN Utf8DecodeAcc(b, i + 3, Append(acc, (x - 224) * 4096
                                 + (b[i + 1] - 128) * 64 + (b[i + 2] - 128)))
             ELSE IF x \in 240..244 /\ IsCont(b, i + 1) /\ IsCont(b, i + 2) /\ IsCont(b, i + 3)
                     /\ (x - 240) * 262144 + (b[i + 1] - 128) * 4096 \in 65536..1114111
             THEN Utf8DecodeAcc(b, i + 4, Append(acc, (x - 240) * 262144
                                 + (b[i + 1] - 128) * 4096 + (b[i + 2] - 128) * 64
                                 + (b[i + 3] - 128)))
             ELSE Raise("UnicodeDecodeError")

\* b.decode('utf8')
Utf8Decode(b) == Utf8DecodeAcc(b, 1, <<>>)

----------------------------------------------------------------------------
(* The encode functions of the default table *)

EncOk(code, chunk) == [ok |-> TRUE, code |-> code, chunk |-> chunk]

bool2bson(val) == EncOk(BSON_BOOLEAN, IF val.v THEN <<ONE>> ELSE <<ZERO>>)

bytes2bson(val) ==
    EncOk(BSON_BINARY, pack_i32(PyInt(Len(val.b))).b \o <<BSON_BINARY_GENERIC>> \o val.b)

RECURSIVE Chunks(_)
\* the mantissa split into 8-bit chunks, least significant first
Chunks(mant) ==
    IF mant = <<>> THEN <<>>
    ELSE <<mant[Len(mant)]>> \o Chunks(SubSeq(mant, 1, Len(mant) - 1))

\* decimal2bson taking the exponent for an unsigned byte
decimal2bson_UnsignedExp(val) ==
    LET exp == val.exp
        mant == DecToInt(DecMul(DecAbs(val), DecPow10(-exp)))
        buf == <<val.sign, exp % 256>> \o Reverse(Chunks(mant.mag))
    IN  IF exp \notin 0..255 THEN Raise("OverflowError")
        ELSE EncOk(BSON_BINARY, pack_i32(PyInt(Len(buf))).b \o <<BSON_BINARY_CUSTOM>> \o buf)

decimal2bson(val) ==
    LET exp    == val.exp
        mant   == DecToInt(DecMul(DecAbs(val), DecPow10(-exp)))
        chunks == Chunks(mant.mag)
    IN  IF exp \notin -128..127 THEN Raise("OverflowError")
        ELSE LET buf == <<val.sign, exp % 256>> \o Reverse(chunks)
             IN  EncOk(BSON_BINARY,
                       pack_i32(PyInt(Len(buf))).b \o <<BSON_BINARY_CUSTOM>> \o buf)

float2bson(val) == EncOk(BSON_FLOAT, Reverse(val.bits))

\* int2bson without the 64 bit tier
int2bson_NoInt64(val) ==
    IF pack_i32(val).ok THEN EncOk(BSON_INT32, pack_i32(val).b)
    ELSE decimal2bson(IntToDec(val))

int2bson(val) ==
    IF pack_i32(val).ok THEN EncOk(BSON_INT32, pack_i32(val).b)
    ELSE IF pack_signed(val, 8).ok THEN EncOk(BSON_INT64, pack_signed(val, 8).b)
    ELSE decimal2bson(IntToDec(val))

none2bson(val) == EncOk(BSON_NULL, <<>>)

string2bson(val) ==
    LET buf == Utf8Encode(val.cp)
    IN  EncOk(BSON_STRING, pack_i32(PyInt(Len(buf) + 1)).b \o buf \o <<ZERO>>)

uuid2bson(val) ==
    EncOk(BSON_BINARY, pack_i32(PyInt(Len(val.bytes))).b \o <<BSON_BINARY_UUID>> \o val.bytes)

----------------------------------------------------------------------------
(* The decode functions of the default table *)

DecOk(v) == [ok |-> TRUE, val |-> v]

bson2bytes(bval) == DecOk([k |-> "bytes", b |-> bval])

bson2bool(bval) ==
    IF Len(bval) # 1 THEN Raise("TypeError")
    ELSE DecOk([k |-> "bool", v |-> bval[1] # 0])

RECURSIVE Accumulate(_, _, _)
\* mant after the loop over chunks[i..]: mant = mant << 8; mant += chunk
Accumulate(chunks, i, mant) ==
    IF i > Len(chunks) THEN mant
    ELSE Accumulate(chunks, i + 1,
                    AddSmall(IF mant = <<>> THEN <<>> ELSE Append(mant, 0), chunks[i], 256))

bson2decimal(bval) ==
    IF Len(bval) < 2 THEN Raise("StructError")
    ELSE LET sign == bval[1]
             exp  == IF bval[2] >= 128 THEN bval[2] - 256 ELSE bval[2]
             buf  == SubSeq(bval, 3, Len(bval))
             mant == Accumulate(buf, 1, <<>>)
             one  == MkDec(sign % 2, <<1>>, 0)
         IN  IF exp < 0
             THEN DecOk(DecMul(DecMul(one, IntToDec(MkInt(FALSE, mant))), DecPow10(exp)))
             ELSE DecOk(MkInt(sign % 2 = 1, MulSeq(mant, Pow10Bytes(exp), 256)))

bson2float(bval) ==
    IF Len(bval) # 8 THEN Raise("StructError")
    ELSE DecOk([k |-> "float", bits |-> Reverse(bval)])

bson2int(bval) ==
    IF unpack_signed(bval, 8).ok THEN DecOk(unpack_signed(bval, 8).val)
    ELSE IF unpack_i32(bval).ok THEN DecOk(unpack_i32(bval).val)
    ELSE Raise("StructError")

bson2none(bval) == DecOk([k |-> "NoneType"])

bson2string(bval) ==
    IF Utf8Decode(bval).ok THEN DecOk([k |-> "str", cp |-> Utf8Decode(bval).cp])
    ELSE Utf8Decode(bval)

bson2uuid(bval) ==
    IF Len(bval) # 16 THEN Raise("ValueError")
    ELSE DecOk([k |-> "UUID", bytes |-> bval])

----------------------------------------------------------------------------
(* Values *)

None == [k |-> "NoneType"]

\* no entries: the argument None, or {}, of a constructor
EmptyMap == [x \in {} |-> x]

Str(cp) == [k |-> "str", cp |-> cp]

Dict(items) == [k |-> "dict", items |-> items]

List(items) == [k |-> "list", items |-> items]

\* the datetime with the given wall clock time (seconds since the epoch),
\* microsecond and offset from UTC (seconds)
Datetime(secs, us, utcoffset) ==
    [k |-> "datetime", secs |-> secs, us |-> us, utcoffset |-> utcoffset]

\* timegm(dt.utctimetuple())
datetime2timestamp(dt) == dt.secs - dt.utcoffset

datetime2bson(val) ==
    LET ms == datetime2timestamp(val) * 1000
    IN  EncOk(BSON_DATETIME, pack_signed(PyInt(ms), 8).b)

RECURSIVE DigitChars(_)
DigitChars(d) == IF d = <<>> THEN <<>> ELSE <<48 + d[1]>> \o DigitChars(Tail(d))

\* str(key), as code points, for a key that is a str or an int
StrOf(key) ==
    IF key.k = "str" THEN key.cp
    ELSE (IF key.neg THEN <<45>> ELSE <<>>) \o DigitChars(StripD(Convert(key.mag, 256, 10)))

\* enumerate(obj)
Enumerate(items) == [i \in 1..Len(items) |-> <<PyInt(i - 1), items[i]>>]

----------------------------------------------------------------------------
(* Functions a caller passes to BSONEncoder *)

\* fraction2bson: pack('<qq', numerator, denominator) as Binary / Custom
fraction2bson(val) ==
    IF ~pack_signed(val.numerator, 8).ok \/ ~pack_signed(val.denominator, 8).ok
    THEN Raise("OverflowError")
    ELSE LET buf == pack_signed(val.numerator, 8).b \o pack_signed(val.denominator, 8).b
         IN  EncOk(BSON_BINARY, pack_i32(PyInt(Len(buf))).b \o <<BSON_BINARY_CUSTOM>> \o buf)

\* an encoder of int that writes every int as a BSON string of its digits
int2string(val) == string2bson(Str(StrOf(val)))

\* transform_set: a set becomes the dict {'@0': e0, '@1': e1, ...}
transform_set(obj) ==
    IF obj.k = "set"
    THEN Dict([i \in 1..Len(obj.items) |-> <<Str(<<64>> \o StrOf(PyInt(i - 1))), obj.items[i]>>])
    ELSE None

\* a transformer that handles nothing
transform_none(obj) == None

\* a transformer that turns a Fraction into the list [numerator, denominator]
transform_fraction(obj) ==
    IF obj.k = "Fraction" THEN List(<<obj.numerator, obj.denominator>>) ELSE None

\* a transformer that turns a set into the dict {'$set': [e0, e1, ...]}
transform_tagged_set(obj) ==
    IF obj.k = "set" THEN Dict(<<<<Str(<<36, 115, 101, 116>>), List(obj.items)>>>>) ELSE None

\* a transformer that turns a class into the Fraction 1/2
transform_type(obj) ==
    IF obj.k = "type" THEN [k |-> "Fraction", numerator |-> PyInt(1), denominator |-> PyInt(2)]
    ELSE None

CallTransform(transform, obj) ==
    CASE transform = "transform_set" -> transform_set(obj)
      [] transform = "transform_type" -> transform_type(obj)
      [] transform = "transform_tagged_set" -> transform_tagged_set(obj)
      [] transform = "transform_none" -> transform_none(obj)
      [] transform = "transform_fraction" -> transform_fraction(obj)

CallEncode(encode, obj) ==
    CASE encode = "bool2bson" -> bool2bson(obj)
      [] encode = "bytes2bson" -> bytes2bson(obj)
      [] encode = "datetime2bson" -> datetime2bson(obj)
      [] encode = "decimal2bson" -> decimal2bson(obj)
      [] encode = "float2bson" -> float2bson(obj)
      [] encode = "int2bson" -> int2bson(obj)
      [] encode = "none2bson" -> none2bson(obj)
      [] encode = "string2bson" -> string2bson(obj)
      [] encode = "uuid2bson" -> uuid2bson(obj)
      [] encode = "fraction2bson" -> fraction2bson(obj)
      [] encode = "int2string" -> int2string(obj)

----------------------------------------------------------------------------
(* BSONEncoder *)

\* the module's table _dflt_encoder_map as the module is loaded
DfltEncoderMap ==
    "bool" :> "bool2bson" @@ "bytearray" :> "bytes2bson" @@ "bytes" :> "bytes2bson"
    @@ "datetime" :> "datetime2bson" @@ "Decimal" :> "decimal2bson"
    @@ "float" :> "float2bson" @@ "int" :> "int2bson" @@ "NoneType" :> "none2bson"
    @@ "str" :> "string2bson" @@ "UUID" :> "uuid2bson"

\* a constructor that registers the encoders in the module's table
BSONEncoder__init__Shared(dflt, encoders_arg, transformers_arg) ==
    [self |-> [encoder_map |-> EmptyMap, transformers |-> transformers_arg],
     dflt |-> encoders_arg @@ dflt]

\* BSONEncoder(encoders, transformers): the new instance, and the module's
\* table as the constructor leaves it (dflt is the table before the call)
BSONEncoder__init__(dflt, encoders_arg, transformers_arg) ==
    [self |-> [encoder_map |-> encoders_arg, transformers |-> transformers_arg],
     dflt |-> dflt]

\* self._get_encoder(obj)
_get_encoder(self, obj) ==
    LET obj_type == obj.k
    IN  IF obj_type \in DOMAIN self.encoder_map
        THEN [ok |-> TRUE, fn |-> self.encoder_map[obj_type]]
        ELSE IF obj_type \in DOMAIN dflt_encoder_map
        THEN [ok |-> TRUE, fn |-> dflt_encoder_map[obj_type]]
        ELSE Raise("KeyError")

RECURSIVE _encode_obj(_, _)
RECURSIVE _encode_elems(_, _)
RECURSIVE EncodeChunks(_, _, _, _)
RECURSIVE Transform(_, _, _)
RECURSIVE SumLen(_)

SumLen(chunks) == IF chunks = <<>> THEN 0 ELSE Len(chunks[1]) + SumLen(Tail(chunks))

RECURSIVE Join(_)
Join(chunks) == IF chunks = <<>> THEN <<>> ELSE chunks[1] \o Join(Tail(chunks))

\* a length that leaves the terminator out
DocLength_NoTerminator(chunks) == SumLen(chunks) + 4

\* the length a document's prefix states, from its element chunks
DocLength(chunks) == SumLen(chunks) + 5

\* self._encode_obj(obj)
_encode_obj(self, obj) ==
    IF obj.k = "dict"
    THEN LET r == _encode_elems(self, obj.items)
         IN  IF r.ok THEN EncOk(BSON_DOCUMENT, r.b) ELSE r
    ELSE IF obj.k \in {"list", "tuple"}
    THEN LET r == _encode_elems(self, Enumerate(obj.items))
         IN  IF r.ok THEN EncOk(BSON_ARRAY, r.b) ELSE r
    ELSE IF _get_encoder(self, obj).ok
    THEN CallEncode(_get_encoder(self, obj).fn, obj)
    ELSE Transform(self, obj, 1)

\* a loop that encodes what no transformer handles as null
Transform_Lenient(self, obj, i) ==
    IF i > Len(self.transformers)
    THEN EncOk(BSON_NULL, <<>>)
    ELSE LET trans_obj == CallTransform(self.transformers[i], obj)
         IN  IF trans_obj # None THEN _encode_obj(self, trans_obj)
             ELSE Transform(self, obj, i + 1)

\* a loop that goes through self._transformers from the last to the first
Transform_LastFirst(self, obj, i) ==
    IF i > Len(self.transformers)
    THEN Raise("ValueError")
    ELSE LET trans_obj == CallTransform(self.transformers[Len(self.transformers) + 1 - i], obj)
         IN  IF trans_obj # None THEN _encode_obj(self, trans_obj)
             ELSE Transform(self, obj, i + 1)

\* the loop of _encode_obj over self._transformers, from the i-th on
Transform(self, obj, i) ==
    IF i > Len(self.transformers)
    THEN Raise("ValueError")
    ELSE LET trans_obj == CallTransform(self.transformers[i], obj)
         IN  IF trans_obj # None THEN _encode_obj(self, trans_obj)
             ELSE Transform(self, obj, i + 1)

\* the loop of _encode_elems over elems[i..], chunks the list built so far
EncodeChunks(self, elems, i, chunks) ==
    IF i > Len(elems) THEN [ok |-> TRUE, chunks |-> chunks]
    ELSE LET key  == elems[i][1]
             val  == elems[i][2]
             name == Utf8Encode(StrOf(key)) \o <<ZERO>>
             r    == _encode_obj(self, val)
         IN  IF ~r.ok THEN r
             ELSE EncodeChunks(self, elems, i + 1, Append(chunks, <<r.code>> \o name \o r.chunk))

\* self._encode_elems(elems)
_encode_elems(self, elems) ==
    LET r == EncodeChunks(self, elems, 1, <<>>)
    IN  IF ~r.ok THEN r
        ELSE LET length == DocLength(r.chunks)
             IN  [ok |-> TRUE,
                  b |-> pack_signed(PyInt(length), 4).b \o Join(r.chunks) \o <<ZERO>>]

RECURSIVE ObjCalls(_, _)
RECURSIVE ElemsCalls(_, _, _)
RECURSIVE TransformCalls(_, _, _)

\* the calls of transformers self._encode_obj(obj) makes, in the order it makes
\* them: which transformer (idx, fn), with what (arg), returning what (ret)
ObjCalls(self, obj) ==
    IF obj.k = "dict" THEN ElemsCalls(self, obj.items, 1)
    ELSE IF obj.k \in {"list", "tuple"} THEN ElemsCalls(self, Enumerate(obj.items), 1)
    ELSE IF _get_encoder(self, obj).ok THEN <<>>
    ELSE TransformCalls(self, obj, 1)

\* the calls the loop over self._transformers makes from the i-th on
TransformCalls(self, obj, i) ==
    IF i > Len(self.transformers) THEN <<>>
    ELSE LET trans_obj == CallTransform(self.transformers[i], obj)
             ev == [idx |-> i, fn |-> self.transformers[i], arg |-> obj, ret |-> trans_obj]
         IN  IF trans_obj # None THEN <<ev>> \o ObjCalls(self, trans_obj)
             ELSE <<ev>> \o TransformCalls(self, obj, i + 1)

\* the calls the loop of _encode_elems makes from elems[i] on; it ends with the
\* first value that fails
ElemsCalls(self, elems, i) ==
    IF i > Len(elems) THEN <<>>
    ELSE IF ~_encode_obj(self, elems[i][2]).ok THEN ObjCalls(self, elems[i][2])
    ELSE ObjCalls(self, elems[i][2]) \o ElemsCalls(self, elems, i + 1)

\* encode without the check of the root
encode_AnyRoot(self, obj, data) ==
    LET r == _encode_obj(self, obj)
    IN  IF ~r.ok THEN [ret |-> r, data |-> data]
        ELSE [ret |-> [ok |-> TRUE, n |-> Len(r.chunk)], data |-> data \o r.chunk]

\* an encode that writes every element of the root as soon as it is encoded
encode_Streaming(self, obj, data) ==
    IF obj.k \in {"list", "tuple"}
    THEN [ret |-> Raise("TypeError"), data |-> data]
    ELSE LET r    == _encode_obj(self, obj)
             elem(i) == <<_encode_obj(self, obj.items[i][2]).code>>
                        \o Utf8Encode(StrOf(obj.items[i][1])) \o <<ZERO>>
                        \o _encode_obj(self, obj.items[i][2]).chunk
             done == {k \in 0..Len(obj.items) :
                         \A i \in 1..k : _encode_obj(self, obj.items[i][2]).ok}
         IN  IF r.ok THEN [ret |-> [ok |-> TRUE, n |-> Len(r.chunk)], data |-> data \o r.chunk]
             ELSE IF obj.k # "dict" THEN [ret |-> r, data |-> data]
             ELSE [ret |-> r,
                   data |-> data \o Join([i \in 1..(CHOOSE k \in done : \A j \in done : j <= k)
                                             |-> elem(i)])]

\* self.encode(obj, stream): the outcome and the stream's content after it
encode(self, obj, data) ==
    IF obj.k \in {"list", "tuple"}
    THEN [ret |-> Raise("TypeError"), data |-> data]
    ELSE LET r == _encode_obj(self, obj)
         IN  IF ~r.ok THEN [ret |-> r, data |-> data]
             ELSE [ret |-> [ok |-> TRUE, n |-> Len(r.chunk)], data |-> data \o r.chunk]

----------------------------------------------------------------------------
(* Python slices of bytes *)

SliceIndex(i, n) == IF i < 0 THEN Max(n + i, 0) ELSE Min(i, n)

\* s[lo:hi]
Slice(s, lo, hi) ==
    LET a == SliceIndex(lo, Len(s))
        b == SliceIndex(hi, Len(s))
    IN  IF a >= b THEN <<>> ELSE SubSeq(s, a + 1, b)

\* s[:hi]
SliceTo(s, hi) == Slice(s, 0, hi)

\* s[lo:]
SliceFrom(s, lo) == Slice(s, lo, Len(s))

\* buf.find(ZERO)
FindZero(buf) ==
    IF \E i \in 1..Len(buf) : buf[i] = ZERO
    THEN (CHOOSE i \in 1..Len(buf) : buf[i] = ZERO /\ \A j \in 1..(i - 1) : buf[j] # ZERO) - 1
    ELSE -1

\* unpack_i32(buf) as a number of the model (a length)
unpack_len(buf) ==
    IF Len(buf) # 4 THEN Raise("StructError")
    ELSE [ok |-> TRUE,
          n |-> buf[1] + 256 * buf[2] + 65536 * buf[3]
                + 16777216 * (IF buf[4] >= 128 THEN buf[4] - 256 ELSE buf[4])]

----------------------------------------------------------------------------
(* BSONDecoder *)

bson2datetime(bval) ==
    IF ~unpack_signed(bval, 8).ok THEN Raise("StructError")
    ELSE LET ms == SmallInt(unpack_signed(bval, 8).val)
             t  == (ms - (ms % 1000)) \div 1000
         IN  DecOk(Datetime(t, 0, 0))

\* check_end_zero(buf): TRUE when it raises
\* a check that only misses a last byte
check_end_zero_Empty(buf) == Len(buf) = 0

check_end_zero(buf) == Slice(buf, -1, Len(buf)) # <<ZERO>>

\* the module's table _dflt_decoder_map
DfltDecoderMap ==
    <<BSON_BOOLEAN>> :> "bson2bool"
    @@ <<BSON_BINARY, BSON_BINARY_GENERIC>> :> "bson2bytes"
    @@ <<BSON_BINARY, BSON_BINARY_UUID>> :> "bson2uuid"
    @@ <<BSON_BINARY, BSON_BINARY_CUSTOM>> :> "bson2decimal"
    @@ <<BSON_DATETIME>> :> "bson2datetime"
    @@ <<BSON_FLOAT>> :> "bson2float"
    @@ <<BSON_INT32>> :> "bson2int"
    @@ <<BSON_INT64>> :> "bson2int"
    @@ <<BSON_NULL>> :> "bson2none"
    @@ <<BSON_STRING>> :> "bson2string"

\* BSONDecoder(decoders, recreators): the new instance
BSONDecoder__init__(decoders_arg, recreators_arg) ==
    [decoder_map |-> (<<BSON_DOCUMENT>> :> "_decode_obj"
                      @@ <<BSON_ARRAY>> :> "_decode_array"
                      @@ <<BSON_BINARY>> :> "_decode_binary"
                      @@ decoders_arg),
     recreators |-> recreators_arg]

\* self._get_decoder(code)
_get_decoder(self, code) ==
    IF code \in DOMAIN self.decoder_map THEN [ok |-> TRUE, fn |-> self.decoder_map[code]]
    ELSE IF code \in DOMAIN DfltDecoderMap THEN [ok |-> TRUE, fn |-> DfltDecoderMap[code]]
    ELSE Raise("KeyError")

\* self._parse_cstr(buf)
_parse_cstr(buf) ==
    LET idx  == FindZero(buf)
        name == Utf8Decode(SliceTo(buf, idx))
    IN  IF ~name.ok THEN name
        ELSE [ok |-> TRUE, name |-> name.cp, buf |-> SliceFrom(buf, idx + 1)]

\* self._parse_fixed_length(buf, nbytes)
_parse_fixed_length(buf, nbytes) ==
    [ok |-> TRUE, bval |-> SliceTo(buf, nbytes), buf |-> SliceFrom(buf, nbytes)]

\* self._parse_string(buf)
_parse_string(buf) ==
    LET nbytes == unpack_len(SliceTo(buf, 4))
    IN  IF ~nbytes.ok THEN nbytes
        ELSE LET idx_rem_buf == nbytes.n + 4
                 bval        == Slice(buf, 4, idx_rem_buf)
             IN  IF check_end_zero(bval) THEN Raise("ValueError")
                 ELSE [ok |-> TRUE, bval |-> SliceTo(bval, -1),
                       buf |-> SliceFrom(buf, idx_rem_buf)]

\* self._parse_binary(buf)
_parse_binary(buf) ==
    LET nbytes == unpack_len(SliceTo(buf, 4))
    IN  IF ~nbytes.ok THEN nbytes
        ELSE LET idx_rem_buf == nbytes.n + 5
             IN  [ok |-> TRUE, bval |-> Slice(buf, 4, idx_rem_buf),
                  buf |-> SliceFrom(buf, idx_rem_buf)]

\* self._parse_embedded_doc(buf)
_parse_embedded_doc(buf) ==
    LET nbytes == unpack_len(SliceTo(buf, 4))
    IN  IF ~nbytes.ok THEN nbytes
        ELSE LET bval == Slice(buf, 4, nbytes.n)
             IN  IF check_end_zero(bval) THEN Raise("ValueError")
                 ELSE [ok |-> TRUE, bval |-> SliceTo(bval, -1),
                       buf |-> SliceFrom(buf, nbytes.n)]

\* the codes of the class's table _parser_map
ParserCodes ==
    {BSON_ARRAY, BSON_BINARY, BSON_BOOLEAN, BSON_DATETIME, BSON_DOCUMENT, BSON_FLOAT,
     BSON_INT32, BSON_INT64, BSON_NULL, BSON_STRING}

\* a parser table in which an unknown tag is taken for an element without payload
Parse_Skip(code, buf) ==
    CASE code \in {BSON_ARRAY, BSON_DOCUMENT} -> _parse_embedded_doc(buf)
      [] code = BSON_BINARY -> _parse_binary(buf)
      [] code = BSON_BOOLEAN -> _parse_fixed_length(buf, 1)
      [] code \in {BSON_DATETIME, BSON_FLOAT, BSON_INT64} -> _parse_fixed_length(buf, 8)
      [] code = BSON_INT32 -> _parse_fixed_length(buf, 4)
      [] code = BSON_STRING -> _parse_string(buf)
      [] OTHER -> _parse_fixed_length(buf, 0)

\* self._get_parser(code)(self, buf)
Parse(code, buf) ==
    CASE code \in {BSON_ARRAY, BSON_DOCUMENT} -> _parse_embedded_doc(buf)
      [] code = BSON_BINARY -> _parse_binary(buf)
      [] code = BSON_BOOLEAN -> _parse_fixed_length(buf, 1)
      [] code \in {BSON_DATETIME, BSON_FLOAT, BSON_INT64} -> _parse_fixed_length(buf, 8)
      [] code = BSON_INT32 -> _parse_fixed_length(buf, 4)
      [] code = BSON_NULL -> _parse_fixed_length(buf, 0)
      [] code = BSON_STRING -> _parse_string(buf)
      [] OTHER -> Raise("ValueError")

\* bool(v) for a value a recreator returns
Truthy(v) ==
    CASE v.k = "NoneType" -> FALSE
      [] v.k = "bool" -> v.v
      [] v.k = "int" -> v.mag # <<>>
      [] v.k \in {"dict", "list", "tuple", "set"} -> v.items # <<>>
      [] v.k = "str" -> v.cp # <<>>
      [] OTHER -> TRUE

\* dict_[key], or None
DictGet(items, key) ==
    IF \E i \in 1..Len(items) : items[i][1] = key
    THEN items[CHOOSE i \in 1..Len(items) : items[i][1] = key][2]
    ELSE None

\* recreate_set: the dict {'@0': e0, ...} becomes the set of its values
recreate_set(dict_) ==
    IF \E i \in 1..Len(dict_.items) : dict_.items[i][1] = Str(<<64, 48>>)
    THEN [k |-> "set", items |-> [i \in 1..Len(dict_.items) |-> dict_.items[i][2]]]
    ELSE None

\* a recreator for the documents {'$set': [e0, ...]}: the set of the list's values
recreate_tagged_set(dict_) ==
    IF Len(dict_.items) = 1 /\ dict_.items[1][1] = Str(<<36, 115, 101, 116>>)
       /\ dict_.items[1][2].k = "list"
    THEN [k |-> "set", items |-> dict_.items[1][2].items]
    ELSE None

\* a recreator that returns dict_['flag'] when there is one (None included)
recreate_flag(dict_) == DictGet(dict_.items, Str(<<102, 108, 97, 103>>))

\* a recreator that wraps every dict into an object of the application
recreate_wrap(dict_) == [k |-> "Wrapped", of |-> dict_]

CallRecreate(recreator, obj) ==
    CASE recreator = "recreate_set" -> recreate_set(obj)
      [] recreator = "recreate_tagged_set" -> recreate_tagged_set(obj)
      [] recreator = "recreate_flag" -> recreate_flag(obj)
      [] recreator = "recreate_wrap" -> recreate_wrap(obj)

\* obj[key] = val on a dict: a key already present keeps its place
DictSet(items, key, val) ==
    IF \E i \in 1..Len(items) : items[i][1] = key
    THEN [i \in 1..Len(items) |-> IF items[i][1] = key THEN <<key, val>> ELSE items[i]]
    ELSE Append(items, <<key, val>>)

RECURSIVE DictUpdate(_, _, _)
\* obj.update(pairs[i..])
DictUpdate(items, pairs, i) ==
    IF i > Len(pairs) THEN items
    ELSE DictUpdate(DictSet(items, pairs[i][1], pairs[i][2]), pairs, i + 1)

\* bson2fraction: two little-endian 64 bit integers, numerator and denominator
bson2fraction(bval) ==
    IF Len(bval) # 16 THEN Raise("StructError")
    ELSE DecOk([k |-> "Fraction",
                numerator |-> unpack_signed(SubSeq(bval, 1, 8), 8).val,
                denominator |-> unpack_signed(SubSeq(bval, 9, 16), 8).val])

\* a decode function of the application that keeps the payload as it is
bson2raw(bval) == DecOk([k |-> "Raw", b |-> bval])

RECURSIVE _decode_elems(_, _, _)
RECURSIVE _decode_obj(_, _)
RECURSIVE Recreate(_, _, _)
RECURSIVE CallDecode(_, _, _)

\* the loop of _decode_obj over self._recreators, from the i-th on
Recreate(self, obj, i) ==
    IF i > Len(self.recreators) THEN obj
    ELSE LET recr_obj == CallRecreate(self.recreators[i], obj)
         IN  IF Truthy(recr_obj) THEN recr_obj ELSE Recreate(self, obj, i + 1)

\* self._decode_obj(buf)
_decode_obj(self, buf) ==
    LET r == _decode_elems(self, buf, <<>>)
    IN  IF ~r.ok THEN r
        ELSE DecOk(Recreate(self, Dict(DictUpdate(<<>>, r.elems, 1)), 1))

\* a _decode_array that returns the values last to first
_decode_array_Reversed(self, buf) ==
    LET r == _decode_elems(self, buf, <<>>)
    IN  IF ~r.ok THEN r
        ELSE DecOk(List([i \in 1..Len(r.elems) |-> r.elems[Len(r.elems) + 1 - i][2]]))

\* self._decode_array(buf)
_decode_array(self, buf) ==
    LET r == _decode_elems(self, buf, <<>>)
    IN  IF ~r.ok THEN r
        ELSE DecOk(List([i \in 1..Len(r.elems) |-> r.elems[i][2]]))

\* a _decode_binary that takes a payload of unknown subtype for plain bytes
_decode_binary_AsBytes(self, buf) ==
    LET subtype == SliceTo(buf, 1)
        code    == <<BSON_BINARY>> \o subtype
    IN  IF ~_get_decoder(self, code).ok THEN bson2bytes(SliceFrom(buf, 1))
        ELSE IF subtype = <<>> THEN Raise("RecursionError")
        ELSE CallDecode(self, _get_decoder(self, code).fn, SliceFrom(buf, 1))

\* self._decode_binary(buf)
_decode_binary(self, buf) ==
    LET subtype == SliceTo(buf, 1)
        code    == <<BSON_BINARY>> \o subtype
    IN  IF ~_get_decoder(self, code).ok THEN Raise("ValueError")
        \* without a subtype byte the code is BSON_BINARY alone, whose decoder is
        \* _decode_binary itself, called with the same empty buffer without end
        ELSE IF subtype = <<>> THEN Raise("RecursionError")
        ELSE CallDecode(self, _get_decoder(self, code).fn, SliceFrom(buf, 1))

\* decode(bval), decode the function a decoder table names
CallDecode(self, decode, bval) ==
    CASE decode = "_decode_obj" -> _decode_obj(self, bval)
      [] decode = "_decode_array" -> _decode_array(self, bval)
      [] decode = "_decode_binary" -> _decode_binary(self, bval)
      [] decode = "bson2bool" -> bson2bool(bval)
      [] decode = "bson2bytes" -> bson2bytes(bval)
      [] decode = "bson2uuid" -> bson2uuid(bval)
      [] decode = "bson2decimal" -> bson2decimal(bval)
      [] decode = "bson2datetime" -> bson2datetime(bval)
      [] decode = "bson2float" -> bson2float(bval)
      [] decode = "bson2int" -> bson2int(bval)
      [] decode = "bson2none" -> bson2none(bval)
      [] decode = "bson2string" -> bson2string(bval)
      [] decode = "bson2fraction" -> bson2fraction(bval)
      [] decode = "bson2raw" -> bson2raw(bval)

\* the elements self._decode_elems(buf) yields, after those of elems
_decode_elems(self, buf, elems) ==
    IF Len(buf) = 0 THEN [ok |-> TRUE, elems |-> elems]
    ELSE LET code == buf[1]
             n    == _parse_cstr(SliceFrom(buf, 1))
         IN  IF ~n.ok THEN n
             ELSE LET p == Parse(code, n.buf)
                  IN  IF ~p.ok THEN p
                      ELSE IF ~_get_decoder(self, <<code>>).ok THEN Raise("KeyError")
                      ELSE LET v == CallDecode(self, _get_decoder(self, <<code>>).fn, p.bval)
                           IN  IF ~v.ok THEN v
                               ELSE _decode_elems(self, p.buf,
                                                  Append(elems, <<Str(n.name), v.val>>))

\* one turn of the loop of self._decode_elems(buf): the pair it yields and the
\* bytes left for the next turn
_decode_elems_next(self, buf) ==
    LET code == buf[1]
        n    == _parse_cstr(SliceFrom(buf, 1))
    IN  IF ~n.ok THEN n
        ELSE LET p == Parse(code, n.buf)
             IN  IF ~p.ok THEN p
                 ELSE IF ~_get_decoder(self, <<code>>).ok THEN Raise("KeyError")
                 ELSE LET v == CallDecode(self, _get_decoder(self, <<code>>).fn, p.bval)
                      IN  IF ~v.ok THEN v
                          ELSE [ok |-> TRUE, name |-> Str(n.name), val |-> v.val, buf |-> p.buf]

RECURSIVE ObjPasses(_, _, _)
RECURSIVE ElemsPasses(_, _, _)

\* the passes over self._recreators made while self._decode_elems(buf) is consumed,
\* in the order they are made; path names the element that holds buf
ElemsPasses(self, buf, path) ==
    IF Len(buf) = 0 THEN <<>>
    ELSE LET code == buf[1]
             n    == _parse_cstr(SliceFrom(buf, 1))
             p    == Parse(code, n.buf)
             fn   == _get_decoder(self, <<code>>).fn
             sub  == Append(path, Str(n.name))
             made == CASE fn = "_decode_obj" -> ObjPasses(self, p.bval, sub)
                       [] fn = "_decode_array" -> ElemsPasses(self, p.bval, sub)
                       [] OTHER -> <<>>
         IN  IF ~n.ok THEN <<>>
             ELSE IF ~p.ok THEN <<>>
             ELSE IF ~_get_decoder(self, <<code>>).ok THEN <<>>
             ELSE IF ~CallDecode(self, fn, p.bval).ok THEN made
             ELSE made \o ElemsPasses(self, p.buf, path)

\* recreators run before the elements of the document are decoded
ObjPasses_ParentFirst(self, buf, path) ==
    LET bare == [self EXCEPT !.recreators = <<>>]
        r    == _decode_elems(bare, buf, <<>>)
        obj  == Dict(DictUpdate(<<>>, r.elems, 1))
    IN  IF ~r.ok THEN ElemsPasses(self, buf, path)
        ELSE <<[path |-> path, arg |-> obj, ret |-> Recreate(self, obj, 1)]>>
             \o ElemsPasses(self, buf, path)

\* the passes over self._recreators self._decode_obj(buf) makes: those made for
\* its elements, then its own, on the mapping obj and with the result ret
ObjPasses(self, buf, path) ==
    LET r   == _decode_elems(self, buf, <<>>)
        obj == Dict(DictUpdate(<<>>, r.elems, 1))
    IN  IF ~r.ok THEN ElemsPasses(self, buf, path)
        ELSE Append(ElemsPasses(self, buf, path),
                    [path |-> path, arg |-> obj, ret |-> Recreate(self, obj, 1)])

\* stream.read(n) at position pos of a stream holding data
Read(data, pos, n) ==
    IF n < 0 THEN SliceFrom(data, pos) ELSE Slice(data, pos, pos + n)

\* self.decode(stream): the outcome and the stream's position after it
decode(self, data, pos) ==
    LET buf4   == Read(data, pos, 4)
        nbytes == unpack_len(SliceTo(buf4, 4))
    IN  IF ~nbytes.ok THEN [ret |-> nbytes, pos |-> pos + Len(buf4)]
        ELSE LET buf  == Read(data, pos + Len(buf4), nbytes.n - 4)
                 pos2 == pos + Len(buf4) + Len(buf)
             IN  IF check_end_zero(buf) THEN [ret |-> Raise("ValueError"), pos |-> pos2]
                 ELSE [ret |-> _decode_obj(self, SliceTo(buf, -1)), pos |-> pos2]

\* the passes over self._recreators self.decode(stream) makes
DecodePasses(self, data, pos) ==
    LET buf4   == Read(data, pos, 4)
        nbytes == unpack_len(SliceTo(buf4, 4))
        buf    == Read(data, pos + Len(buf4), nbytes.n - 4)
    IN  IF ~nbytes.ok THEN <<>>
        ELSE IF check_end_zero(buf) THEN <<>>
        ELSE ObjPasses(self, SliceTo(buf, -1), <<>>)

\* dumps(obj)
dumps(obj) ==
    LET encoder == BSONEncoder__init__(dflt_encoder_map, EmptyMap, <<>>).self
        r       == encode(encoder, obj, <<>>)
    IN  IF r.ret.ok THEN [ok |-> TRUE, b |-> r.data] ELSE r.ret

\* loads(bson)
loads(bson) == decode(BSONDecoder__init__(EmptyMap, <<>>), bson, 0).ret

\* dump(obj, stream), the stream holding data and standing at its end
dump(obj, data) == encode(BSONEncoder__init__(dflt_encoder_map, EmptyMap, <<>>).self, obj, data)

\* load(stream), the stream holding data and standing at pos
load(data, pos) == decode(BSONDecoder__init__(EmptyMap, <<>>), data, pos)

----------------------------------------------------------------------------
(* The values the calls are made with *)

\* deepest nesting of the documents encoded
MaxDepth == 2
\* most BSONEncoder instances constructed
MaxEncoders == 2
\* encode is called on the stream while it holds fewer bytes than this, and
\* after that only with values it refuses
MaxStreamLen == 1

Bool(v) == [k |-> "bool", v |-> v]

Bytes(b) == [k |-> "bytes", b |-> b]

Float(bits) == [k |-> "float", bits |-> bits]

Uuid(bytes) == [k |-> "UUID", bytes |-> bytes]

Fraction(n, d) == [k |-> "Fraction", numerator |-> PyInt(n), denominator |-> PyInt(d)]

Set(items) == [k |-> "set", items |-> items]

Tuple(items) == [k |-> "tuple", items |-> items]

\* a class object, such as int
Type == [k |-> "type"]

IntMags ==
    {<<>>} \cup {Strip(<<h>> \o Rep(f, n - 2) \o <<l>>) :
                    h \in {1, 127, 128, 255}, f \in {0, 255}, l \in {0, 1, 255},
                    n \in 2..MaxIntBytes}
           \cup {<<h>> : h \in {1, 127, 128, 255}}

IntInputs == {MkInt(neg, mag) : neg \in BOOLEAN, mag \in IntMags}

DigitSeqs ==
    {<<0>>} \cup {<<h>> \o Rep(f, n - 2) \o <<l>> :
                    h \in {1, 9}, f \in {0, 9}, l \in {0, 5, 6}, n \in 2..MaxDigits}
            \cup {<<h>> : h \in {1, 5, 9}}

ExpInputs == {-129, -128, -3, -1, 0, 1, 2, 127, 128}

DecInputs == {MkDec(s, d, e) : s \in {0, 1}, d \in DigitSeqs, e \in ExpInputs}

KeyA == Str(<<97>>)

KeyB == Str(<<98, 233>>)

\* 1.5, NaN and -0.0
FloatInputs ==
    {Float(<<63, 248, 0, 0, 0, 0, 0, 0>>), Float(<<127, 248, 0, 0, 0, 0, 0, 0>>),
     Float(<<128, 0, 0, 0, 0, 0, 0, 0>>)}

StrInputs == {Str(<<>>), Str(<<97>>), Str(<<97, 0, 98>>), Str(<<233, 8364, 128512>>)}

BytesInputs == {Bytes(<<>>), Bytes(<<0, 3>>), [k |-> "bytearray", b |-> <<255>>]}

UuidInputs == {Uuid([i \in 1..16 |-> i]), Uuid([i \in 1..16 |-> 0])}

\* datetimes before and after the epoch, with and without milliseconds and
\* microseconds, naive or in UTC (offset 0) and in CEST (two hours ahead)
DatetimeInputs ==
    {Datetime(secs, us, utcoffset) :
         secs \in {-1, 0, 86399, 2000000}, us \in {0, 1000, 123000, 123456},
         utcoffset \in {0, 7200}}

\* scalars of the kinds the default table encodes, integers and Decimals apart
PlainScalars ==
    {None, Bool(TRUE), Bool(FALSE)} \cup FloatInputs \cup StrInputs \cup BytesInputs
    \cup UuidInputs

\* a few integers and Decimals, for the documents nested more deeply
FewNumbers ==
    {PyInt(0), PyInt(-5), MkInt(FALSE, <<128, 0, 0, 0>>), MkInt(FALSE, <<2>> \o Rep(0, 9)),
     MkDec(1, <<1, 6, 7, 3, 9, 0>>, -4), MkDec(0, <<5>>, 0)}

RECURSIVE Nest(_, _)
\* v in d levels of documents and arrays
Nest(v, d) ==
    IF d = 0 THEN v
    ELSE IF d % 2 = 1 THEN Dict(<<<<KeyA, Nest(v, d - 1)>>>>)
    ELSE List(<<PyInt(7), Nest(v, d - 1)>>)

\* the documents dumps is called with
DumpsInputs ==
    {Dict(<<<<KeyA, v>>>>) : v \in PlainScalars \cup IntInputs \cup FewNumbers}
    \cup {Dict(<<<<KeyB, PyInt(1)>>, <<KeyA, Nest(v, d)>>>>) :
             v \in PlainScalars \cup FewNumbers, d \in 1..MaxDepth}
    \cup {Dict(<<>>), Dict(<<<<KeyA, Tuple(<<>>)>>>>)}
    \cup {Dict(<<<<KeyA, v>>>>) : v \in DatetimeInputs}
    \cup {Dict(<<<<KeyA, MkDec(s, d, -3)>>>>) : s \in {0, 1}, d \in DigitSeqs}

\* the arguments BSONEncoder is constructed with
EncoderArgs ==
    {[encoders |-> EmptyMap, transformers |-> <<>>],
     [encoders |-> ("int" :> "int2string" @@ "Fraction" :> "fraction2bson"),
      transformers |-> <<"transform_type">>],
     [encoders |-> EmptyMap,
      transformers |-> <<"transform_type", "transform_fraction", "transform_tagged_set",
                         "transform_set">>]}

\* the values encode is called with
EncodeInputs ==
    {PyInt(5), Str(<<97>>), None, Bool(TRUE), List(<<PyInt(1)>>), Tuple(<<>>),
     List(<<Set(<<PyInt(1)>>)>>), Set(<<PyInt(1), PyInt(2)>>), Set(<<>>), Type,
     Fraction(3, 4), Dict(<<>>)}
    \cup {Dict(<<<<KeyA, v>>>>) :
             v \in {None, Bool(TRUE), PyInt(5), MkInt(FALSE, <<128, 0, 0, 0>>), Str(<<97>>),
                    Bytes(<<0, 3>>), Fraction(3, 4), Set(<<PyInt(1), PyInt(2)>>), Type,
                    Set(<<Fraction(3, 4), Type>>),
                    MkDec(0, <<1>>, 128), MkDec(1, <<1, 6, 7, 3, 9, 0>>, -4)}}
    \cup {Dict(<<<<KeyB, u>>, <<KeyA, Nest(v, d)>>>>) :
             u \in {PyInt(1), MkDec(0, <<1>>, 128)}, v \in {PyInt(5), Type, Set(<<Type>>)},
             d \in 0..MaxDepth}

----------------------------------------------------------------------------
(* The module json *)

\* the module's table _ext_encoder_map as the module is loaded
ExtEncoderMap ==
    "date" :> "date2json" @@ "datetime" :> "datetime2json" @@ "time" :> "time2json"
    @@ "Decimal" :> "decimal2json" @@ "UUID" :> "uuid2json"

HexDigit(n) == IF n < 10 THEN 48 + n ELSE 87 + n

RECURSIVE HexOf(_)
\* the two lower-case hex digits of each byte
HexOf(bytes) ==
    IF bytes = <<>> THEN <<>>
    ELSE <<HexDigit(bytes[1] \div 16), HexDigit(bytes[1] % 16)>> \o HexOf(Tail(bytes))

\* uuid2json: str(val), the hex digits in groups of 8-4-4-4-12
uuid2json(val) ==
    Str(HexOf(SubSeq(val.bytes, 1, 4)) \o <<45>> \o HexOf(SubSeq(val.bytes, 5, 6)) \o <<45>>
        \o HexOf(SubSeq(val.bytes, 7, 8)) \o <<45>> \o HexOf(SubSeq(val.bytes, 9, 10)) \o <<45>>
        \o HexOf(SubSeq(val.bytes, 11, 16)))

\* an encode function of an application for UUID: lambda v: v.hex
uuid2hex(val) == Str(HexOf(val.bytes))

\* the encode function of EnhancedEncoderTest for Fraction: lambda f: str(f)
fraction2str(val) ==
    Str(IF val.denominator = PyInt(1) THEN StrOf(val.numerator)
        ELSE StrOf(val.numerator) \o <<47>> \o StrOf(val.denominator))

RECURSIVE JoinStr(_, _)
\* sep.join(str(e) for e in items)
JoinStr(items, sep) ==
    IF items = <<>> THEN <<>>
    ELSE IF Len(items) = 1 THEN StrOf(items[1])
    ELSE StrOf(items[1]) \o sep \o JoinStr(Tail(items), sep)

\* the transformer of EnhancedEncoderTest: a set becomes the string '<e0, e1, ...>'
set2str(obj) ==
    IF obj.k = "set" THEN Str(<<60>> \o JoinStr(obj.items, <<44, 32>>) \o <<62>>) ELSE None

\* encode(obj), encode the function the table names
CallJsonEncode(fn, obj) ==
    CASE fn = "uuid2json" -> uuid2json(obj)
      [] fn = "uuid2hex" -> uuid2hex(obj)
      [] fn = "fraction2str" -> fraction2str(obj)

CallJsonTransform(transform, obj) ==
    CASE transform = "set2str" -> set2str(obj)

\* JSONEncoder(encoders, transformers): the new instance, whose _encoder_map is the
\* module's table itself, and that table as the constructor leaves it
JSONEncoder__init__(ext, encoders_arg, transformers_arg) ==
    [self |-> [transformers |-> transformers_arg],
     ext  |-> IF encoders_arg # EmptyMap THEN encoders_arg @@ ext ELSE ext]

RECURSIVE JsonTransform(_, _, _)
\* the loop of _encode_obj over self._transformers, from the i-th on
JsonTransform(self, obj, i) ==
    IF i > Len(self.transformers) THEN Raise("ValueError")
    ELSE LET trans_obj == CallJsonTransform(self.transformers[i], obj)
         IN  IF trans_obj # None THEN [ok |-> TRUE, val |-> trans_obj]
             ELSE JsonTransform(self, obj, i + 1)

\* self._encode_obj(obj), encoder_map being self._encoder_map
JSONEncoder_encode_obj(encoder_map, self, obj) ==
    IF obj.k \in DOMAIN encoder_map
    THEN [ok |-> TRUE, val |-> CallJsonEncode(encoder_map[obj.k], obj)]
    ELSE JsonTransform(self, obj, 1)

RECURSIVE JsonEscape(_)
\* the characters of a JSON string (quotation mark and backslash escaped; the
\* strings encoded here hold no control characters)
JsonEscape(cp) ==
    IF cp = <<>> THEN <<>>
    ELSE (IF cp[1] \in {34, 92} THEN <<92, cp[1]>> ELSE <<cp[1]>>) \o JsonEscape(Tail(cp))

RECURSIVE iterencode(_, _, _)
RECURSIVE JsonItems(_, _, _, _)

\* the items of a dict from the i-th on, as iterencode writes them
JsonItems(encoder_map, self, items, i) ==
    IF i > Len(items) THEN [ok |-> TRUE, text |-> <<>>]
    ELSE LET v    == iterencode(encoder_map, self, items[i][2])
             rest == JsonItems(encoder_map, self, items, i + 1)
         IN  IF ~v.ok THEN v
             ELSE IF ~rest.ok THEN rest
             ELSE [ok |-> TRUE,
                   text |-> (IF i > 1 THEN <<44, 32>> ELSE <<>>)
                            \o <<34>> \o JsonEscape(StrOf(items[i][1])) \o <<34, 58, 32>>
                            \o v.text \o rest.text]

\* self._json_encoder.iterencode(obj), the chunks joined: json.JSONEncoder with
\* default=self._encode_obj
iterencode(encoder_map, self, obj) ==
    CASE obj.k = "str" -> [ok |-> TRUE, text |-> <<34>> \o JsonEscape(obj.cp) \o <<34>>]
      [] obj.k = "int" -> [ok |-> TRUE, text |-> StrOf(obj)]
      [] obj.k = "NoneType" -> [ok |-> TRUE, text |-> <<110, 117, 108, 108>>]
      [] obj.k = "bool" -> [ok |-> TRUE, text |-> IF obj.v THEN <<116, 114, 117, 101>>
                                                  ELSE <<102, 97, 108, 115, 101>>]
      [] obj.k = "dict" ->
            LET r == JsonItems(encoder_map, self, obj.items, 1)
            IN  IF ~r.ok THEN r ELSE [ok |-> TRUE, text |-> <<123>> \o r.text \o <<125>>]
      [] OTHER ->
            LET o == JSONEncoder_encode_obj(encoder_map, self, obj)
            IN  IF ~o.ok THEN o ELSE iterencode(encoder_map, self, o.val)

\* self.encode(obj, StringIO()): the number of characters written and the text
JSONEncoder_encode(encoder_map, self, obj) ==
    LET r == iterencode(encoder_map, self, obj)
    IN  IF ~r.ok THEN r ELSE [ok |-> TRUE, n |-> Len(r.text), text |-> r.text]

----------------------------------------------------------------------------
(* State and operations *)

Idle == [op |-> "idle"]

\* most calls in progress at a time
MaxThreads == 2

\* a thread that is making no call
Ready == [pc |-> "ready"]

\* transformers or [], recreators or []: TRUE when the attribute set is the list
\* the caller passed, FALSE when it is a new list
IsCallersList(list_arg) == list_arg # <<>>

\* the two objects a caller passed to a constructor, as the caller holds them: the
\* map, the list, and whether the instance constructed holds that very list
Passed(map_arg, list_arg) ==
    [map |-> map_arg, list |-> list_arg, shared |-> IsCallersList(list_arg),
     given |-> [map |-> map_arg, list |-> list_arg]]

Init ==
    /\ dflt_encoder_map = DfltEncoderMap
    /\ encoders = <<>>
    /\ decoders = <<>>
    /\ stream = [data |-> <<>>, pos |-> 0]
    /\ call = Idle
    /\ args = [enc |-> <<>>, dec |-> <<>>]
    /\ pipe = [data |-> <<>>, pos |-> 0, docs |-> <<>>, next |-> 1, whole |-> TRUE]
    /\ threads = [t \in 1..MaxThreads |-> Ready]
    /\ ext_encoder_map = ExtEncoderMap
    /\ json_encoders = <<>>

\* the caller is done with the result
Return ==
    /\ call # Idle
    /\ call' = Idle
    /\ UNCHANGED <<dflt_encoder_map, encoders, decoders, stream, args, others>>

\* encoder = BSONEncoder(encoders=a.encoders, transformers=a.transformers)
NewEncoder(a) ==
    /\ call = Idle
    /\ Len(encoders) < MaxEncoders
    /\ LET r == BSONEncoder__init__(dflt_encoder_map, a.encoders, a.transformers)
       IN  /\ encoders' = Append(encoders, r.self)
           /\ dflt_encoder_map' = r.dflt
    /\ args' = [args EXCEPT !.enc = Append(@, Passed(a.encoders, a.transformers))]
    /\ call' = [op |-> "BSONEncoder", arg |-> a]
    /\ UNCHANGED <<decoders, stream, others>>

\* encoders[i].encode(obj, stream)
Encode(i, obj) ==
    /\ call = Idle
    /\ LET r == encode(encoders[i], obj, stream.data)
       IN  /\ Len(stream.data) < MaxStreamLen \/ ~r.ret.ok
           /\ stream' = [stream EXCEPT !.data = r.data]
           /\ call' = [op |-> "encode", self |-> encoders[i], arg |-> obj, ret |-> r.ret,
                       before |-> stream.data,
                       calls |-> IF obj.k \in {"list", "tuple"} THEN <<>>
                                 ELSE ObjCalls(encoders[i], obj)]
    /\ UNCHANGED <<dflt_encoder_map, encoders, decoders, args, others>>

Next ==
    \/ \E a \in EncoderArgs : NewEncoder(a)
    \/ \E i \in DOMAIN encoders, obj \in EncodeInputs : Encode(i, obj)
    \/ Return

Spec == Init /\ [][Next]_vars

\* int2bson(val)
Int2bson(val) ==
    /\ call = Idle
    /\ call' = [op |-> "int2bson", arg |-> val, ret |-> int2bson(val)]
    /\ UNCHANGED <<dflt_encoder_map, encoders, decoders, stream, args, others>>

\* decimal2bson(val)
Decimal2bson(val) ==
    /\ call = Idle
    /\ call' = [op |-> "decimal2bson", arg |-> val, ret |-> decimal2bson(val)]
    /\ UNCHANGED <<dflt_encoder_map, encoders, decoders, stream, args, others>>

\* bson2decimal(bval), bval the bytes decimal2bson or int2bson has just written
\* after the length and the subtype
Bson2decimal ==
    /\ call.op \in {"decimal2bson", "int2bson"}
    /\ call.ret.ok
    /\ call.ret.code = BSON_BINARY
    /\ LET bval == SliceFrom(call.ret.chunk, 5)
       IN  call' = [op |-> "bson2decimal", arg |-> bval, src |-> call.arg,
                    ret |-> bson2decimal(bval)]
    /\ UNCHANGED <<dflt_encoder_map, encoders, decoders, stream, args, others>>

\* dumps(obj)
Dumps(obj) ==
    /\ call = Idle
    /\ call' = [op |-> "dumps", arg |-> obj, ret |-> dumps(obj)]
    /\ UNCHANGED <<dflt_encoder_map, encoders, decoders, stream, args, others>>

\* loads(bson), bson the bytes dumps has just returned
Loads ==
    /\ call.op = "dumps"
    /\ call.ret.ok
    /\ call' = [op |-> "loads", arg |-> call.ret.b, src |-> call.arg,
                ret |-> loads(call.ret.b)]
    /\ UNCHANGED <<dflt_encoder_map, encoders, decoders, stream, args, others>>

NextCodec ==
    \/ \E val \in IntInputs : Int2bson(val)
    \/ \E val \in DecInputs : Decimal2bson(val)
    \/ Bson2decimal
    \/ \E obj \in DumpsInputs : Dumps(obj)
    \/ Loads
    \/ Return

\* the module's functions, called one at a time
SpecCodec == Init /\ [][NextCodec]_vars

----------------------------------------------------------------------------
(* Decoding: the documents on the wire, as written and as damaged *)

\* most BSONDecoder instances constructed
MaxDecoders == 1
\* most bytes cut off the end of a document
MaxCut == 5

KeyFlag == Str(<<102, 108, 97, 103>>)

\* the arguments BSONDecoder is constructed with
DecoderArgs ==
    {[decoders |-> EmptyMap, recreators |-> <<>>],
     [decoders |-> (<<BSON_BINARY, BSON_BINARY_CUSTOM>> :> "bson2fraction"),
      recreators |-> <<"recreate_set">>],
     [decoders |-> (<<BSON_STRING>> :> "bson2raw" @@ <<BSON_BINARY, 1>> :> "bson2raw"
                    @@ <<17>> :> "bson2raw" @@ <<BSON_DOCUMENT>> :> "bson2raw"),
      recreators |-> <<>>],
     [decoders |-> EmptyMap, recreators |-> <<"recreate_flag", "recreate_wrap">>],
     [decoders |-> EmptyMap, recreators |-> <<"recreate_tagged_set", "recreate_flag">>]}

\* the encoders the documents on the wire were written by
WireEncoders ==
    <<[encoder_map |-> EmptyMap, transformers |-> <<>>],
      [encoder_map |-> ("Fraction" :> "fraction2bson"), transformers |-> <<"transform_set">>],
      [encoder_map |-> EmptyMap, transformers |-> <<"transform_none", "transform_tagged_set">>]>>

\* the documents on the wire
WireDocs ==
    {Dict(<<<<KeyA, Uuid([i \in 1..16 |-> i])>>>>),
     Dict(<<<<KeyA, Dict(<<<<KeyB, PyInt(1)>>>>)>>, <<KeyB, List(<<PyInt(1), Str(<<97>>)>>)>>>>),
     Dict(<<<<KeyA, Bytes(<<0>>)>>>>),
     Dict(<<<<KeyA, Str(<<98, 233>>)>>>>),
     Dict(<<<<KeyA, Fraction(3, 4)>>>>),
     Dict(<<<<KeyA, MkDec(1, <<1, 6, 7, 3, 9, 0>>, -4)>>, <<KeyB, List(<<Bytes(<<7>>)>>)>>>>),
     Dict(<<<<KeyA, MkInt(FALSE, <<1, 0, 0, 0, 0, 0>>)>>>>),
     Dict(<<<<KeyA, MkDec(1, <<1, 6, 7, 3, 9, 0>>, -4)>>, <<KeyB, None>>>>),
     Dict(<<<<KeyFlag, PyInt(0)>>>>),
     Dict(<<<<KeyFlag, PyInt(5)>>, <<KeyA, Bool(TRUE)>>>>),
     Dict(<<<<KeyA, Dict(<<<<KeyFlag, Set(<<>>)>>>>)>>>>),
     Dict(<<<<KeyA, Dict(<<<<KeyFlag, None>>>>)>>>>),
     Dict(<<<<KeyA, Set(<<PyInt(1), PyInt(2)>>)>>>>),
     Dict(<<<<KeyA, Set(<<>>)>>>>),
     Dict(<<<<KeyB, Set(<<PyInt(3)>>)>>, <<KeyA, Fraction(3, 4)>>>>),
     Dict(<<<<KeyA, List(<<Dict(<<<<KeyB, None>>>>), Tuple(<<>>), Dict(<<>>)>>)>>>>),
     Dict(<<<<KeyA, Tuple(<<Str(<<98>>), PyInt(2), Float(<<63, 248, 0, 0, 0, 0, 0, 0>>)>>)>>>>),
     Dict(<<<<KeyA, Dict(<<<<Str(<<49>>), Str(<<98>>)>>, <<Str(<<48>>), PyInt(2)>>>>)>>>>),
     Dict(<<<<Str(<<>>), None>>>>),
     Dict(<<>>)}

RECURSIVE Subst(_, _, _)
\* the value self._encode_obj encodes in place of obj: obj itself, or what the
\* transformers make of it
Subst(self, obj, i) ==
    IF obj.k \in {"dict", "list", "tuple"} \/ _get_encoder(self, obj).ok
       \/ i > Len(self.transformers)
    THEN obj
    ELSE IF CallTransform(self.transformers[i], obj) # None
    THEN Subst(self, CallTransform(self.transformers[i], obj), 1)
    ELSE Subst(self, obj, i + 1)

RECURSIVE MarksDoc(_, _, _)
RECURSIVE MarksElems(_, _, _, _)
\* where the tags, the zero bytes that end the names, the binary subtypes and the
\* terminators are in the bytes b of an encoded document that begins after base
\* other bytes
MarksDoc(b, base, depth) ==
    LET length == unpack_len(SubSeq(b, base + 1, base + 4)).n
    IN  {[pos |-> base + length, role |-> "terminator", depth |-> depth]}
        \cup MarksElems(b, base + 5, base + length, depth)

\* the same for the elements from b[off] up to the terminator b[end]; the size of
\* a payload is the one its parser takes
MarksElems(b, off, end, depth) ==
    IF off >= end THEN {}
    ELSE LET code   == b[off]
             pay    == CHOOSE i \in (off + 1)..end :
                           b[i] = ZERO /\ \A j \in (off + 1)..(i - 1) : b[j] # ZERO
             nbytes == unpack_len(SubSeq(b, pay + 1, pay + 4)).n
             size   == CASE code \in {BSON_ARRAY, BSON_DOCUMENT} -> nbytes
                         [] code = BSON_BINARY -> nbytes + 5
                         [] code = BSON_STRING -> nbytes + 4
                         [] code = BSON_BOOLEAN -> 1
                         [] code \in {BSON_DATETIME, BSON_FLOAT, BSON_INT64} -> 8
                         [] code = BSON_INT32 -> 4
                         [] code = BSON_NULL -> 0
         IN  {[pos |-> off, role |-> "tag", depth |-> depth],
              [pos |-> pay, role |-> "nameend", depth |-> depth]}
             \cup (IF code \in {BSON_ARRAY, BSON_DOCUMENT} THEN MarksDoc(b, pay, depth + 1)
                   ELSE IF code = BSON_BINARY
                   THEN {[pos |-> pay + 5, role |-> "subtype", depth |-> depth]}
                   ELSE {})
             \cup MarksElems(b, pay + size + 1, end, depth)

\* the values a byte of the wire is replaced by: 0x39 as in the tests, the
\* unsupported codes Timestamp (tag) and Function (subtype), and for the zero byte
\* of a name a letter and the tag of a Boolean
PokeValues(role) ==
    CASE role = "tag" -> {57, 17}
      [] role = "nameend" -> {97, BSON_BOOLEAN}
      [] role = "subtype" -> {57, 1}
      [] role = "terminator" -> {1, 16, 57, 255}

\* what happens to the bytes b of a document on the wire: nothing, a byte replaced,
\* bytes cut off the end, an embedded document sent as an array (its tag is
\* BSON_ARRAY, its names are the names it has), or the length of a Binary element
\* replaced by -1
Faults(b) ==
    {[kind |-> "none"]}
    \cup {[kind |-> "neglen", at |-> m] : m \in {m \in MarksDoc(b, 0, 0) : m.role = "subtype"}}
    \cup {[kind |-> "retag", at |-> m] :
             m \in {m \in MarksDoc(b, 0, 0) : m.role = "tag" /\ b[m.pos] = BSON_DOCUMENT}}
    \cup UNION {{[kind |-> "poke", at |-> m, val |-> v] : v \in PokeValues(m.role)} :
                   m \in MarksDoc(b, 0, 0)}
    \cup {[kind |-> "cut", n |-> c] : c \in (1..MaxCut) \cap (1..Len(b))}
    \cup {[kind |-> "cut", n |-> Len(b) - k] : k \in {0, 3} \cap (0..(Len(b) - 1))}

Damage(b, f) ==
    CASE f.kind = "none" -> b
      [] f.kind = "poke" -> [b EXCEPT ![f.at.pos] = f.val]
      [] f.kind = "retag" -> [b EXCEPT ![f.at.pos] = BSON_ARRAY]
      [] f.kind = "neglen" -> [i \in DOMAIN b |->
                                  IF i \in (f.at.pos - 4)..(f.at.pos - 1) THEN 255 ELSE b[i]]
      [] f.kind = "cut" -> SubSeq(b, 1, Len(b) - f.n)

\* each document as each of the encoders writes it
WireEncoder ==
    {[e |-> e, enc |-> WireEncoders[e], obj |-> obj, r |-> _encode_obj(WireEncoders[e], obj)] :
         e \in DOMAIN WireEncoders, obj \in WireDocs}

\* the byte sequences decode is called on: a document as an encoder wrote it (one
\* encoder for each way it is written), then damaged
Wires ==
    LET written == WireEncoder
    IN  UNION {{[enc |-> x.enc, obj |-> x.obj, fault |-> f, b |-> Damage(x.r.chunk, f)] :
                   f \in Faults(x.r.chunk)} :
               x \in {x \in written :
                         /\ x.r.ok
                         /\ \A y \in written : (y.obj = x.obj /\ y.e < x.e) => y.r # x.r}}

\* decoder = BSONDecoder(decoders=a.decoders, recreators=a.recreators)
NewDecoder(a) ==
    /\ call = Idle
    /\ Len(decoders) < MaxDecoders
    /\ decoders' = Append(decoders, BSONDecoder__init__(a.decoders, a.recreators))
    /\ args' = [args EXCEPT !.dec = Append(@, Passed(a.decoders, a.recreators))]
    /\ call' = [op |-> "BSONDecoder", arg |-> a]
    /\ UNCHANGED <<dflt_encoder_map, encoders, stream, others>>

\* decoders[j].decode(BytesIO(w.b)): what it returns or raises, and where it
\* leaves the stream it was given
Decode(j, w) ==
    /\ call = Idle
    /\ LET r == decode(decoders[j], w.b, 0)
       IN  call' = [op |-> "decode", self |-> decoders[j], wire |-> w, ret |-> r.ret,
                    pos |-> r.pos]
    /\ UNCHANGED <<dflt_encoder_map, encoders, decoders, stream, args, others>>

NextDecoder ==
    \/ \E a \in DecoderArgs : NewDecoder(a)
    \/ call = Idle /\ \E j \in DOMAIN decoders : \E w \in Wires : Decode(j, w)
    \/ Return

\* decoders reading documents off the wire
SpecDecoder == Init /\ [][NextDecoder]_vars

----------------------------------------------------------------------------
(* Documents written to a stream one after the other, then read back *)

\* most documents written to the stream
MaxDocs == 2

\* the values dump is called with; the last one is refused
StreamDocs ==
    {Dict(<<>>),
     Dict(<<<<KeyA, PyInt(5)>>>>),
     Dict(<<<<KeyA, Str(<<97, 0, 98>>)>>, <<KeyB, None>>>>),
     Dict(<<<<KeyB, Bool(TRUE)>>, <<KeyA, List(<<Bytes(<<0, 3>>), Dict(<<>>)>>)>>>>),
     Dict(<<<<KeyA, Bytes(<<0>>)>>>>),
     Dict(<<<<KeyA, Type>>>>)}

\* dump(obj, pipe), pipe standing at its end; pipe.docs are the documents written to
\* it, pipe.next is the place among them of the one it stands at, and pipe.whole
\* tells that it holds every byte written
Dump(obj) ==
    /\ call = Idle
    /\ pipe.whole
    /\ pipe.pos = Len(pipe.data)
    /\ Len(pipe.docs) < MaxDocs
    /\ \E r \in {dump(obj, pipe.data)} :
           /\ pipe' = IF r.ret.ok
                      THEN [data |-> r.data, pos |-> Len(r.data), whole |-> TRUE,
                            docs |-> Append(pipe.docs, obj), next |-> Len(pipe.docs) + 2]
                      ELSE pipe
           /\ call' = [op |-> "dump", arg |-> obj, ret |-> r.ret]
    /\ UNCHANGED <<dflt_encoder_map, encoders, decoders, stream, args, threads,
                   ext_encoder_map, json_encoders>>

\* pipe.seek(0)
Rewind ==
    /\ call = Idle
    /\ pipe.pos # 0
    /\ pipe' = [pipe EXCEPT !.pos = 0, !.next = 1]
    /\ call' = [op |-> "seek"]
    /\ UNCHANGED <<dflt_encoder_map, encoders, decoders, stream, args, threads,
                   ext_encoder_map, json_encoders>>

\* pipe.truncate(pipe.tell() - 1): the last byte written is lost, the position stays
Truncate ==
    /\ call = Idle
    /\ pipe.whole
    /\ pipe.pos = Len(pipe.data)
    /\ pipe.data # <<>>
    /\ pipe' = [pipe EXCEPT !.data = SubSeq(@, 1, Len(@) - 1), !.whole = FALSE]
    /\ call' = [op |-> "truncate"]
    /\ UNCHANGED <<dflt_encoder_map, encoders, decoders, stream, args, threads,
                   ext_encoder_map, json_encoders>>

\* load(pipe)
Load ==
    /\ call = Idle
    /\ \E r \in {load(pipe.data, pipe.pos)} :
           /\ pipe' = [pipe EXCEPT !.pos = r.pos,
                                   !.next = IF r.ret.ok THEN @ + 1 ELSE @]
           /\ call' = [op |-> "load", ret |-> r.ret, before |-> pipe.pos, at |-> pipe.next]
    /\ UNCHANGED <<dflt_encoder_map, encoders, decoders, stream, args, threads,
                   ext_encoder_map, json_encoders>>

NextStream ==
    \/ \E obj \in StreamDocs : Dump(obj)
    \/ Rewind
    \/ Truncate
    \/ Load
    \/ Return

\* one stream written by dump and read by load
SpecStream == Init /\ [][NextStream]_vars

----------------------------------------------------------------------------
(* The caller's maps and lists after construction *)

\* what the caller makes of a map of encode functions: clear(), or an entry for int
\* added or replaced
EncodersChanged(m) == {EmptyMap, ("int" :> "int2string") @@ m}

\* what the caller makes of a list of transformers: clear(), or its contents
\* replaced by transform_set
TransformersChanged(l) == {<<>>, <<"transform_set">>}

\* what the caller makes of a map of decode functions
DecodersChanged(m) == {EmptyMap, (<<BSON_INT32>> :> "bson2raw") @@ m}

\* what the caller makes of a list of recreators
RecreatorsChanged(l) == {<<>>, <<"recreate_set">>}

\* the values the instances are tried on
ConfigObjs ==
    {Dict(<<<<KeyA, PyInt(5)>>>>),
     Dict(<<<<KeyA, Set(<<PyInt(1), PyInt(2)>>)>>>>),
     Dict(<<<<KeyA, Type>>>>)}

\* the documents the instances are tried on
ConfigWires ==
    {encode(WireEncoders[2], obj, <<>>).data :
        obj \in {Dict(<<<<KeyA, PyInt(5)>>>>), Dict(<<<<KeyA, Set(<<PyInt(1), PyInt(2)>>)>>>>),
                 Dict(<<<<KeyA, Fraction(3, 4)>>>>)}}

\* the caller changes the map it gave to BSONEncoder: the instance holds a copy
ChangeEncoders(i, m) ==
    /\ call = Idle
    /\ m # args.enc[i].map
    /\ args' = [args EXCEPT !.enc[i].map = m]
    /\ call' = [op |-> "change", what |-> "encoders"]
    /\ UNCHANGED <<dflt_encoder_map, encoders, decoders, stream, others>>

\* the caller changes the list it gave to BSONEncoder: self._transformers is that
\* list when the constructor was given one that is not empty
ChangeTransformers(i, l) ==
    /\ call = Idle
    /\ l # args.enc[i].list
    /\ args' = [args EXCEPT !.enc[i].list = l]
    /\ encoders' = IF args.enc[i].shared
                   THEN [encoders EXCEPT ![i].transformers = l]
                   ELSE encoders
    /\ call' = [op |-> "change", what |-> "transformers"]
    /\ UNCHANGED <<dflt_encoder_map, decoders, stream, others>>

\* the caller changes the map it gave to BSONDecoder: the instance holds a copy
ChangeDecoders(j, m) ==
    /\ call = Idle
    /\ m # args.dec[j].map
    /\ args' = [args EXCEPT !.dec[j].map = m]
    /\ call' = [op |-> "change", what |-> "decoders"]
    /\ UNCHANGED <<dflt_encoder_map, encoders, decoders, stream, others>>

\* the caller changes the list it gave to BSONDecoder: self._recreators is that
\* list when the constructor was given one that is not empty
ChangeRecreators(j, l) ==
    /\ call = Idle
    /\ l # args.dec[j].list
    /\ args' = [args EXCEPT !.dec[j].list = l]
    /\ decoders' = IF args.dec[j].shared
                   THEN [decoders EXCEPT ![j].recreators = l]
                   ELSE decoders
    /\ call' = [op |-> "change", what |-> "recreators"]
    /\ UNCHANGED <<dflt_encoder_map, encoders, stream, others>>

\* encoders[i].encode(obj, BytesIO())
EncodeOwn(i, obj) ==
    /\ call = Idle
    /\ \E r \in {encode(encoders[i], obj, <<>>)} :
           call' = [op |-> "encode_own", i |-> i, arg |-> obj, ret |-> r.ret, data |-> r.data]
    /\ UNCHANGED <<dflt_encoder_map, encoders, decoders, stream, args, others>>

\* decoders[j].decode(BytesIO(b))
DecodeOwn(j, b) ==
    /\ call = Idle
    /\ \E r \in {decode(decoders[j], b, 0)} :
           call' = [op |-> "decode_own", j |-> j, arg |-> b, ret |-> r.ret, pos |-> r.pos]
    /\ UNCHANGED <<dflt_encoder_map, encoders, decoders, stream, args, others>>

NextConfig ==
    \/ \E a \in EncoderArgs : NewEncoder(a)
    \/ \E a \in DecoderArgs : NewDecoder(a)
    \/ \E i \in DOMAIN encoders : \E m \in EncodersChanged(args.enc[i].map) :
           ChangeEncoders(i, m)
    \/ \E i \in DOMAIN encoders : \E l \in TransformersChanged(args.enc[i].list) :
           ChangeTransformers(i, l)
    \/ \E j \in DOMAIN decoders : \E m \in DecodersChanged(args.dec[j].map) :
           ChangeDecoders(j, m)
    \/ \E j \in DOMAIN decoders : \E l \in RecreatorsChanged(args.dec[j].list) :
           ChangeRecreators(j, l)
    \/ \E i \in DOMAIN encoders, obj \in ConfigObjs : EncodeOwn(i, obj)
    \/ \E j \in DOMAIN decoders, b \in ConfigWires : DecodeOwn(j, b)
    \/ Return

\* instances in use while their callers change what they gave to the constructors
SpecConfig == Init /\ [][NextConfig]_vars

----------------------------------------------------------------------------
(* Calls running on several threads, each with its own instance and stream *)

\* the arguments the instances of the threads are constructed with
ThreadEncoderArgs == {a \in EncoderArgs : a.encoders = EmptyMap}

ThreadDecoderArgs ==
    {a \in DecoderArgs : a.decoders = EmptyMap /\ Len(a.recreators) \in {0, 2}
                             /\ (a.recreators # <<>> => a.recreators[1] = "recreate_flag")}

\* the values the threads encode
ThreadObjs ==
    {Dict(<<<<KeyB, Set(<<PyInt(1)>>)>>, <<KeyA, PyInt(5)>>>>),
     Dict(<<<<KeyA, Str(<<97>>)>>>>),
     Tuple(<<>>)}

\* the documents the threads decode
\* (the bytes of {'flag': 5, 'a': True} and of {'a': {'flag': None}}, and a
\* document that does not end with a zero byte)
ThreadWires ==
    {<<19, 0, 0, 0, BSON_INT32, 102, 108, 97, 103, 0, 5, 0, 0, 0, BSON_BOOLEAN, 97, 0, 1, 0>>,
     <<19, 0, 0, 0, BSON_DOCUMENT, 97, 0, 11, 0, 0, 0, BSON_NULL, 102, 108, 97, 103, 0, 0, 0>>,
     <<5, 0, 0, 0, 1>>}

\* another thread is inside a call
Busy(ths, t) == \E u \in DOMAIN ths \ {t} : ths[u].pc \notin {"ready", "done"}

\* the frame of a call that has returned or raised
Done(f, ret, out, busy) ==
    [pc |-> "done", op |-> f.op, self |-> f.self, arg |-> f.arg, ret |-> ret, out |-> out,
     mixed |-> f.mixed \/ busy]

\* the list the loop of _encode_elems appends to, as if the calls inside the loop
\* shared one list, that of the first of them
chunks_Shared(ths, t) ==
    LET inside == {u \in DOMAIN ths : ths[u].pc = "encoding"}
    IN  ths[CHOOSE u \in inside : \A v \in inside : u <= v].acc

\* the list chunks of the _encode_elems running on thread t, local to it
chunks(ths, t) == ths[t].acc

\* thread t: BSONEncoder(a.encoders, a.transformers).encode(obj, BytesIO()), up to
\* the loop of _encode_elems
StartEncode(t, a, obj) ==
    /\ threads[t] = Ready
    /\ LET self == BSONEncoder__init__(dflt_encoder_map, a.encoders, a.transformers).self
           f    == [pc |-> "encoding", op |-> "encode", self |-> self, arg |-> obj,
                    todo |-> <<>>, acc |-> <<>>, mixed |-> Busy(threads, t)]
       IN  threads' = [threads EXCEPT ![t] =
               IF obj.k \in {"list", "tuple"}
               THEN Done(f, Raise("TypeError"), <<>>, FALSE)
               ELSE [f EXCEPT !.todo = obj.items]]
    /\ UNCHANGED <<dflt_encoder_map, encoders, decoders, stream, call, args, pipe,
                   ext_encoder_map, json_encoders>>

\* thread t: one turn of the loop of _encode_elems
EncodeElem(t) ==
    /\ threads[t].pc = "encoding"
    /\ threads[t].todo # <<>>
    /\ LET f == threads[t]
       IN  \E r \in {EncodeChunks(f.self, <<Head(f.todo)>>, 1, chunks(threads, t))} :
               threads' = [threads EXCEPT ![t] =
                   IF ~r.ok THEN Done(f, r, <<>>, Busy(threads, t))
                   ELSE [f EXCEPT !.todo = Tail(@), !.acc = r.chunks,
                                  !.mixed = @ \/ Busy(threads, t)]]
    /\ UNCHANGED <<dflt_encoder_map, encoders, decoders, stream, call, args, pipe,
                   ext_encoder_map, json_encoders>>

\* thread t: the end of _encode_elems and stream.write(chunk)
EncodeWrite(t) ==
    /\ threads[t].pc = "encoding"
    /\ threads[t].todo = <<>>
    /\ LET f     == threads[t]
           chunk == pack_signed(PyInt(DocLength(chunks(threads, t))), 4).b
                        \o Join(chunks(threads, t)) \o <<ZERO>>
       IN  threads' = [threads EXCEPT ![t] =
               Done(f, [ok |-> TRUE, n |-> Len(chunk)], chunk, Busy(threads, t))]
    /\ UNCHANGED <<dflt_encoder_map, encoders, decoders, stream, call, args, pipe,
                   ext_encoder_map, json_encoders>>

\* thread t: BSONDecoder(a.decoders, a.recreators).decode(BytesIO(b)), up to the
\* loop of _decode_elems
StartDecode(t, a, b) ==
    /\ threads[t] = Ready
    /\ LET self   == BSONDecoder__init__(a.decoders, a.recreators)
           f      == [pc |-> "decoding", op |-> "decode", self |-> self, arg |-> b,
                      todo |-> <<>>, acc |-> <<>>, out |-> 0, mixed |-> Busy(threads, t)]
           buf4   == Read(b, 0, 4)
           nbytes == unpack_len(SliceTo(buf4, 4))
           buf    == Read(b, Len(buf4), nbytes.n - 4)
       IN  threads' = [threads EXCEPT ![t] =
               IF ~nbytes.ok THEN Done(f, nbytes, Len(buf4), FALSE)
               ELSE IF check_end_zero(buf)
               THEN Done(f, Raise("ValueError"), Len(buf4) + Len(buf), FALSE)
               ELSE [f EXCEPT !.todo = SliceTo(buf, -1), !.out = Len(buf4) + Len(buf)]]
    /\ UNCHANGED <<dflt_encoder_map, encoders, decoders, stream, call, args, pipe,
                   ext_encoder_map, json_encoders>>

\* thread t: one turn of the loop of _decode_elems, the pair put into obj
DecodeElem(t) ==
    /\ threads[t].pc = "decoding"
    /\ threads[t].todo # <<>>
    /\ LET f == threads[t]
       IN  \E r \in {_decode_elems_next(f.self, f.todo)} :
               threads' = [threads EXCEPT ![t] =
                   IF ~r.ok THEN Done(f, r, f.out, Busy(threads, t))
                   ELSE [f EXCEPT !.todo = r.buf, !.acc = DictSet(@, r.name, r.val),
                                  !.mixed = @ \/ Busy(threads, t)]]
    /\ UNCHANGED <<dflt_encoder_map, encoders, decoders, stream, call, args, pipe,
                   ext_encoder_map, json_encoders>>

\* thread t: the loop of _decode_obj over self._recreators, and the return
DecodeFinish(t) ==
    /\ threads[t].pc = "decoding"
    /\ threads[t].todo = <<>>
    /\ LET f == threads[t]
       IN  threads' = [threads EXCEPT ![t] =
               Done(f, DecOk(Recreate(f.self, Dict(f.acc), 1)), f.out, Busy(threads, t))]
    /\ UNCHANGED <<dflt_encoder_map, encoders, decoders, stream, call, args, pipe,
                   ext_encoder_map, json_encoders>>

\* thread t is free for its next call
Finish(t) ==
    /\ threads[t].pc = "done"
    /\ threads' = [threads EXCEPT ![t] = Ready]
    /\ UNCHANGED <<dflt_encoder_map, encoders, decoders, stream, call, args, pipe,
                   ext_encoder_map, json_encoders>>

NextThreads ==
    \/ \E t \in DOMAIN threads, a \in ThreadEncoderArgs, obj \in ThreadObjs :
           StartEncode(t, a, obj)
    \/ \E t \in DOMAIN threads : EncodeElem(t)
    \/ \E t \in DOMAIN threads : EncodeWrite(t)
    \/ \E t \in DOMAIN threads, a \in ThreadDecoderArgs, b \in ThreadWires :
           StartDecode(t, a, b)
    \/ \E t \in DOMAIN threads : DecodeElem(t)
    \/ \E t \in DOMAIN threads : DecodeFinish(t)
    \/ \E t \in DOMAIN threads : Finish(t)

\* encode and decode calls interleaved at the turns of their loops
SpecThreads == Init /\ [][NextThreads]_vars

----------------------------------------------------------------------------
(* JSON encoders *)

\* the arguments JSONEncoder is constructed with
JsonEncoderArgs ==
    {[encoders |-> EmptyMap, transformers |-> <<>>],
     [encoders |-> ("Fraction" :> "fraction2str"), transformers |-> <<"set2str">>],
     [encoders |-> ("UUID" :> "uuid2hex"), transformers |-> <<>>]}

\* the values the JSON encoders are called with
JsonInputs ==
    {Uuid([i \in 1..16 |-> i]), Fraction(3, 4), Str(<<97, 34, 98>>), PyInt(-12),
     Set(<<PyInt(1), PyInt(2), PyInt(3)>>),
     Dict(<<<<Str(<<115, 101, 116>>), Set(<<PyInt(1), PyInt(2), PyInt(3)>>)>>,
            <<Str(<<102>>), Fraction(3, 4)>>>>),
     Type}

\* encoder = JSONEncoder(encoders=a.encoders, transformers=a.transformers)
NewJSONEncoder(a) ==
    /\ call = Idle
    /\ Len(json_encoders) < MaxEncoders
    /\ LET r == JSONEncoder__init__(ext_encoder_map, a.encoders, a.transformers)
       IN  /\ json_encoders' = Append(json_encoders, [self |-> r.self, given |-> a.encoders])
           /\ ext_encoder_map' = r.ext
    /\ call' = [op |-> "JSONEncoder", arg |-> a]
    /\ UNCHANGED <<dflt_encoder_map, encoders, decoders, stream, args, pipe, threads>>

\* json_encoders[i].encode(obj, StringIO())
JSONEncode(i, obj) ==
    /\ call = Idle
    /\ call' = [op |-> "json_encode", i |-> i, arg |-> obj,
                ret |-> JSONEncoder_encode(ext_encoder_map, json_encoders[i].self, obj)]
    /\ UNCHANGED <<dflt_encoder_map, encoders, decoders, stream, args, others>>

NextJSON ==
    \/ \E a \in JsonEncoderArgs : NewJSONEncoder(a)
    \/ \E i \in DOMAIN json_encoders, obj \in JsonInputs : JSONEncode(i, obj)
    \/ Return

\* JSON encoders constructed and used
SpecJSON == Init /\ [][NextJSON]_vars

----------------------------------------------------------------------------
(* What the claims speak of *)

\* a <= b, for magnitudes in base 256 without leading zeros
MagLE(a, b) ==
    \/ Len(a) < Len(b)
    \/ /\ Len(a) = Len(b)
       /\ \/ a = b
          \/ \E i \in 1..Len(a) : a[i] < b[i] /\ \A j \in 1..(i - 1) : a[j] = b[j]

\* -2^(8w-1) <= v <= 2^(8w-1) - 1
InRange(v, w) ==
    IF v.neg THEN MagLE(v.mag, <<128>> \o Rep(0, w - 1))
    ELSE MagLE(v.mag, <<127>> \o Rep(255, w - 1))

RECURSIVE DropZeros(_)
DropZeros(d) ==
    IF Len(d) > 1 /\ d[Len(d)] = 0 THEN DropZeros(SubSeq(d, 1, Len(d) - 1)) ELSE d

\* a number as sign, coefficient without trailing zeros, and exponent
Normal(v) ==
    LET d == IF v.k = "int" THEN IntToDec(v) ELSE v
        c == DropZeros(d.digits)
    IN  IF c = <<0>> THEN <<0, c, 0>>
        ELSE <<d.sign, c, d.exp + (Len(d.digits) - Len(c))>>

\* a == b in Python, NaN taken to equal itself
PyEq(a, b) ==
    IF a.k \in {"int", "Decimal"} /\ b.k \in {"int", "Decimal"} THEN Normal(a) = Normal(b)
    ELSE IF a.k \in {"bytes", "bytearray"} /\ b.k \in {"bytes", "bytearray"} THEN a.b = b.b
    ELSE a = b

ScalarKinds == {"NoneType", "bool", "float", "str", "bytes", "bytearray", "UUID", "int", "Decimal"}

\* d is a document of one field, a scalar of a supported kind
OneScalar(d) == d.k = "dict" /\ Len(d.items) = 1 /\ d.items[1][2].k \in ScalarKinds

\* the bytes the last encode call wrote to the stream
Written == SliceFrom(stream.data, Len(call.before))

\* p reads as a framed document: its length first, a zero byte last
Framed(p) ==
    /\ Len(p) >= 5
    /\ unpack_len(SubSeq(p, 1, 4)).n = Len(p)
    /\ p[Len(p)] = 0

RECURSIVE Emitted(_, _)
RECURSIVE EmittedOf(_, _, _)
\* the payloads of the documents and arrays the encoder emits for obj, at every depth,
\* each with the elements it was made of
Emitted(self, obj) ==
    IF obj.k = "dict"
    THEN {[b |-> _encode_elems(self, obj.items).b, elems |-> obj.items]}
         \cup EmittedOf(self, obj.items, 1)
    ELSE IF obj.k \in {"list", "tuple"}
    THEN {[b |-> _encode_elems(self, Enumerate(obj.items)).b, elems |-> Enumerate(obj.items)]}
         \cup EmittedOf(self, Enumerate(obj.items), 1)
    ELSE IF _get_encoder(self, obj).ok THEN {}
    ELSE IF \E i \in DOMAIN self.transformers : CallTransform(self.transformers[i], obj) # None
    THEN Emitted(self, CallTransform(self.transformers[
             CHOOSE i \in DOMAIN self.transformers :
                 /\ CallTransform(self.transformers[i], obj) # None
                 /\ \A j \in 1..(i - 1) : CallTransform(self.transformers[j], obj) = None], obj))
    ELSE {}

EmittedOf(self, elems, i) ==
    IF i > Len(elems) THEN {}
    ELSE Emitted(self, elems[i][2]) \cup EmittedOf(self, elems, i + 1)

RECURSIVE ElemSizes(_, _, _)
\* the sum of the sizes of the elements elems[i..]: code, name, zero byte, payload
ElemSizes(self, elems, i) ==
    IF i > Len(elems) THEN 0
    ELSE 1 + Len(Utf8Encode(StrOf(elems[i][1]))) + 1
         + Len(_encode_obj(self, elems[i][2]).chunk) + ElemSizes(self, elems, i + 1)

MaxOf(S) == IF S = {} THEN 0 ELSE CHOOSE m \in S : \A x \in S : x <= m

RECURSIVE Depth(_)
\* how deep the documents and arrays of obj nest
Depth(obj) ==
    IF obj.k = "dict" THEN 1 + MaxOf({Depth(obj.items[i][2]) : i \in DOMAIN obj.items})
    ELSE IF obj.k \in {"list", "tuple"}
    THEN 1 + MaxOf({Depth(obj.items[i]) : i \in DOMAIN obj.items})
    ELSE 0

RECURSIVE FirstFailure(_, _)
RECURSIVE FirstFailureOf(_, _, _)
RECURSIVE FirstFailureBy(_, _, _)
\* what stops the traversal of obj first: "none", "unhandled" for a value with no
\* encode function that every transformer passes over, "raised" for a value whose
\* encode function raises
FirstFailure(self, obj) ==
    IF obj.k = "dict" THEN FirstFailureOf(self, obj.items, 1)
    ELSE IF obj.k \in {"list", "tuple"} THEN FirstFailureOf(self, Enumerate(obj.items), 1)
    ELSE IF obj.k \in DOMAIN self.encoder_map
    THEN (IF CallEncode(self.encoder_map[obj.k], obj).ok THEN "none" ELSE "raised")
    ELSE IF obj.k \in DOMAIN DfltEncoderMap
    THEN (IF CallEncode(DfltEncoderMap[obj.k], obj).ok THEN "none" ELSE "raised")
    ELSE FirstFailureBy(self, obj, 1)

FirstFailureOf(self, elems, i) ==
    IF i > Len(elems) THEN "none"
    ELSE IF FirstFailure(self, elems[i][2]) # "none" THEN FirstFailure(self, elems[i][2])
    ELSE FirstFailureOf(self, elems, i + 1)

FirstFailureBy(self, obj, i) ==
    IF i > Len(self.transformers) THEN "unhandled"
    ELSE IF CallTransform(self.transformers[i], obj) # None
    THEN FirstFailure(self, CallTransform(self.transformers[i], obj))
    ELSE FirstFailureBy(self, obj, i + 1)

----------------------------------------------------------------------------
(* The claims *)

\* C1: for every value v of a supported scalar kind (None, bool, float, str, bytes,
\* UUID, int, Decimal) placed as the field of a document d, loads(dumps(d)) returns a
\* document with the same keys in which the field decodes to a value equal to v.
C1_ScalarRoundTrip ==
    (call.op = "loads" /\ OneScalar(call.src))
    => /\ call.ret.ok
       /\ call.ret.val.k = "dict"
       /\ Len(call.ret.val.items) = 1
       /\ call.ret.val.items[1][1] = call.src.items[1][1]
       /\ PyEq(call.ret.val.items[1][2], call.src.items[1][2])

\* C2: int2bson never raises, and it selects Int32 exactly when
\* -2^31 <= n <= 2^31-1, Int64 exactly when n is outside that range and
\* -2^63 <= n <= 2^63-1, and Binary with subtype Custom otherwise.
C2_IntegerTiering ==
    call.op = "int2bson"
    => /\ call.ret.ok
       /\ (call.ret.code = BSON_INT32) = InRange(call.arg, 4)
       /\ (call.ret.code = BSON_INT64) = (~InRange(call.arg, 4) /\ InRange(call.arg, 8))
       /\ (call.ret.code = BSON_BINARY /\ call.ret.chunk[5] = BSON_BINARY_CUSTOM)
              = ~InRange(call.arg, 8)

\* an integer beyond 64 bits was encoded, as Binary / Custom
C2_Witness ==
    /\ call.op = "int2bson"
    /\ call.arg = MkInt(FALSE, <<128>> \o Rep(0, 7))
    /\ call.ret.ok
    /\ call.ret.code = BSON_BINARY

\* C3: for every integer n of either sign, of any magnitude, decoding the encoding
\* of n as a document field yields an integer (not a Decimal) equal to n.
C3_IntegerRoundTrip ==
    (call.op = "loads" /\ OneScalar(call.src) /\ call.src.items[1][2].k = "int")
    => /\ call.ret.ok
       /\ call.ret.val = call.src

C5_BigNumberReconstruction ==
    (call.op = "bson2decimal" /\ call.src.k = "Decimal")
    => /\ call.ret.ok
       /\ call.ret.val =
              IF call.src.exp >= 0
              THEN MkInt(call.src.sign = 1,
                         MulSeq(Convert(call.src.digits, 10, 256),
                                Pow10Bytes(call.src.exp), 256))
              ELSE call.src

\* C6: every document or array payload the encoder emits, at every nesting depth,
\* starts with its own length (4 + the sizes of its elements + 1) as a little-endian
\* 32-bit integer and ends with the byte 0x00.
C6_DocumentFraming ==
    (call.op = "encode" /\ call.ret.ok)
    => \A p \in Emitted(call.self, call.arg) :
           /\ Framed(p.b)
           /\ Len(p.b) = 4 + ElemSizes(call.self, p.elems, 1) + 1

\* a document nesting documents and arrays was encoded
C6_Witness ==
    /\ call.op = "encode"
    /\ call.ret.ok
    /\ Depth(call.arg) >= 3
    /\ Cardinality(Emitted(call.self, call.arg)) >= 3

\* C7: encode with a list or tuple as the root value raises TypeError and writes
\* nothing to the stream.
C7_RootArrayRejected ==
    (call.op = "encode" /\ call.arg.k \in {"list", "tuple"})
    => /\ call.ret = Raise("TypeError")
       /\ stream.data = call.before

\* a list was refused as the root, the stream holding a document already
C7_Witness ==
    /\ call.op = "encode"
    /\ call.arg.k = "list"
    /\ call.ret = Raise("TypeError")
    /\ Framed(stream.data)

\* C8: encode fails whenever the root value is not a mapping, in particular for a
\* bare scalar such as an integer, a string or None, so that every byte sequence a
\* successful encode writes to the stream is a framed document.
C8_RootMustBeDocument ==
    call.op = "encode"
    => /\ call.arg.k \in ScalarKinds => ~call.ret.ok
       /\ call.ret.ok => Framed(Written)

RECURSIVE AnyUnhandled(_, _)
RECURSIVE AnyUnhandledBy(_, _, _)
\* some value of obj, at the root or at any depth, is neither a mapping nor a
\* sequence, has no encode function, and every transformer returns None for it
AnyUnhandled(self, obj) ==
    IF obj.k = "dict" THEN \E i \in DOMAIN obj.items : AnyUnhandled(self, obj.items[i][2])
    ELSE IF obj.k \in {"list", "tuple"}
    THEN \E i \in DOMAIN obj.items : AnyUnhandled(self, obj.items[i])
    ELSE IF obj.k \in DOMAIN self.encoder_map \cup DOMAIN DfltEncoderMap THEN FALSE
    ELSE AnyUnhandledBy(self, obj, 1)

AnyUnhandledBy(self, obj, i) ==
    IF i > Len(self.transformers) THEN TRUE
    ELSE IF CallTransform(self.transformers[i], obj) # None
    THEN AnyUnhandled(self, CallTransform(self.transformers[i], obj))
    ELSE AnyUnhandledBy(self, obj, i + 1)

\* C9: when a value, at the root or at any depth, is neither a mapping nor a
\* sequence, has no encode function and every transformer returns None for it,
\* encode fails with ValueError.
C9_UnsupportedType ==
    (call.op = "encode" /\ AnyUnhandled(call.self, call.arg))
    => call.ret = Raise("ValueError")

\* C9 as amended: when the first value of the traversal that cannot be encoded is
\* neither a mapping nor a sequence, has no encode function and every transformer
\* returns None for it, encode fails and writes nothing: with TypeError when the root
\* is a list or a tuple, with ValueError otherwise.
C9_UnsupportedTypeAmended ==
    (call.op = "encode" /\ FirstFailure(call.self, call.arg) = "unhandled")
    => /\ call.ret = Raise(IF call.arg.k \in {"list", "tuple"} THEN "TypeError"
                           ELSE "ValueError")
       /\ stream.data = call.before

\* a value nested in a document was found unsupported, after the transformers
\* had passed over it
C9_Witness ==
    /\ call.op = "encode"
    /\ FirstFailure(call.self, call.arg) = "unhandled"
    /\ call.self.transformers # <<>>
    /\ Depth(call.arg) >= 2
    /\ call.ret = Raise("ValueError")

\* the values C10 is checked on
OverrideProbes == {PyInt(5), MkInt(TRUE, <<1, 0, 0, 0, 0>>), Str(<<97>>), None, Bool(TRUE)}

\* C10: a scalar whose kind has an entry in the encoders map passed to BSONEncoder
\* is encoded by that function, a scalar of another kind by the default one; and
\* constructing such an encoder leaves the shared default table unchanged, so that
\* every other encoder, built before or after, still uses the default function.
C10_OverrideWithoutMutation ==
    /\ dflt_encoder_map = DfltEncoderMap
    /\ \A i \in DOMAIN encoders : \A v \in OverrideProbes :
           _encode_obj(encoders[i], v)
               = CallEncode(IF v.k \in DOMAIN encoders[i].encoder_map
                            THEN encoders[i].encoder_map[v.k]
                            ELSE DfltEncoderMap[v.k], v)

\* an encoder built before one that overrides int has encoded an int
C10_Witness ==
    /\ Len(encoders) = 2
    /\ "int" \notin DOMAIN encoders[1].encoder_map
    /\ "int" \in DOMAIN encoders[2].encoder_map
    /\ call.op = "encode"
    /\ call.self = encoders[1]
    /\ call.arg = Dict(<<<<KeyA, PyInt(5)>>>>)
    /\ call.ret.ok
    /\ Written = <<12, 0, 0, 0, 16, 97, 0, 5, 0, 0, 0, 0>>

\* the keys of a decoder table the first element of the document b carries: its
\* tag, and for a Binary element its tag with its subtype
CarriedKeys(b) ==
    LET tag == b[5]
        z   == CHOOSE i \in 6..Len(b) : b[i] = 0 /\ \A j \in 6..(i - 1) : b[j] # 0
    IN  IF tag = BSON_BINARY THEN {<<tag>>, <<tag, b[z + 5]>>} ELSE {<<tag>>}

\* the outcome ret of decoding a document of one field is what the function fn of the
\* application makes of the field
UserDecoded(fn, ret) ==
    IF fn = "bson2raw"
    THEN ret.ok /\ ret.val.k = "dict" /\ Len(ret.val.items) = 1 /\ ret.val.items[1][2].k = "Raw"
    ELSE \/ ret = Raise("StructError")
         \/ ret.ok /\ ret.val.k = "dict" /\ Len(ret.val.items) = 1
                   /\ ret.val.items[1][2].k = "Fraction"

\* C11: for every key (a tag, or the Binary tag with a subtype) of the decoders map
\* passed to BSONDecoder, an element carrying that tag (and subtype) is decoded by
\* the user's function, whether the key has a default or not.
C11_DecoderOverrides ==
    (/\ call.op = "decode"
     /\ Len(call.wire.obj.items) = 1
     /\ \/ call.wire.fault.kind = "none"
        \/ /\ call.wire.fault.kind = "poke"
           /\ call.wire.fault.at.role \in {"tag", "subtype"}
           /\ call.wire.fault.at.depth = 0)
    => \A a \in DecoderArgs :
           call.self = BSONDecoder__init__(a.decoders, a.recreators)
           => \A key \in CarriedKeys(call.wire.b) \cap DOMAIN a.decoders :
                  UserDecoded(a.decoders[key], call.ret)

RECURSIVE Rewritten(_, _)
\* obj with every value the transformers of self stand in for, at any depth,
\* replaced by what stands in for it
Rewritten(self, obj) ==
    LET s == Subst(self, obj, 1)
    IN  IF s.k \in {"dict", "list", "tuple"}
        THEN [s EXCEPT !.items = [i \in DOMAIN s.items |->
                 IF s.k = "dict" THEN <<s.items[i][1], Rewritten(self, s.items[i][2])>>
                 ELSE Rewritten(self, s.items[i])]]
        ELSE s

\* C12: transformers are consulted only for a value that is neither a mapping nor a
\* sequence and has no encode function; they are called in registration order, each
\* only after the one before it returned absent for the same value; after the first
\* one that returns a substitute no later one is called for that value; and the
\* substitute is encoded by the full procedure, so that what encode does is what it
\* would do without transformers on the document with the substitutes in place.
C12_TransformerChain ==
    call.op = "encode" =>
        LET log  == call.calls
            self == call.self
            bare == [self EXCEPT !.transformers = <<>>]
            r    == _encode_obj(bare, Rewritten(self, call.arg))
        IN  /\ \A p \in DOMAIN log :
                   /\ log[p].arg.k \notin {"dict", "list", "tuple"}
                   /\ ~_get_encoder(self, log[p].arg).ok
                   /\ log[p].fn = self.transformers[log[p].idx]
                   /\ log[p].idx > 1 =>
                          /\ p > 1
                          /\ log[p - 1].idx = log[p].idx - 1
                          /\ log[p - 1].arg = log[p].arg
                          /\ log[p - 1].ret = None
                   /\ (log[p].ret # None /\ p < Len(log)) => log[p + 1].idx = 1
                   /\ (log[p].ret = None /\ log[p].idx < Len(self.transformers)) =>
                          /\ p < Len(log)
                          /\ log[p + 1].idx = log[p].idx + 1
                          /\ log[p + 1].arg = log[p].arg
            /\ call.arg.k \notin {"list", "tuple"} =>
                   /\ call.ret.ok = r.ok
                   /\ r.ok => stream.data = call.before \o r.chunk
                   /\ ~r.ok => call.ret = r /\ stream.data = call.before

\* a set of a Fraction and a class goes through four transformers: two calls
\* returning absent before the set's substitute, then the Fraction's and the class's
C12_Witness ==
    /\ call.op = "encode"
    /\ call.ret.ok
    /\ Len(call.self.transformers) = 4
    /\ \E p \in DOMAIN call.calls :
           /\ call.calls[p].idx = 3
           /\ call.calls[p].arg.k = "set"
           /\ call.calls[p].ret.k = "dict"
           /\ p + 3 <= Len(call.calls)
           /\ call.calls[p + 1].arg.k = "Fraction"
           /\ call.calls[p + 1].ret = None
           /\ call.calls[p + 2].ret.k = "list"
           /\ call.calls[p + 3].arg.k = "type"
           /\ call.calls[p + 3].ret.k = "Fraction"

RECURSIVE FirstNonAbsent(_, _, _)
\* what the first of recreators[i..] that returns something else than None
\* returns for obj, and obj when there is none
FirstNonAbsent(recreators, obj, i) ==
    IF i > Len(recreators) THEN obj
    ELSE IF CallRecreate(recreators[i], obj) # None THEN CallRecreate(recreators[i], obj)
    ELSE FirstNonAbsent(recreators, obj, i + 1)

\* the mapping of the elements of the document b, before its recreators run
RootMapping(self, b) == Dict(_decode_elems(self, SubSeq(b, 5, Len(b) - 1), <<>>).elems)

\* C13: the value decoded for a document is what the first recreator, in
\* registration order, that returns a result other than None returns for the decoded
\* mapping, whatever that result is, and the plain mapping when all return None.
C13_RecreatorChain ==
    (call.op = "decode" /\ call.wire.fault.kind = "none" /\ call.ret.ok)
    => call.ret.val
           = FirstNonAbsent(call.self.recreators, RootMapping(call.self, call.wire.b), 1)

RECURSIVE DocPaths(_, _)
\* the paths (the names from the root down) of the documents in obj, obj at path
DocPaths(obj, path) ==
    IF obj.k = "dict"
    THEN {path} \cup UNION {DocPaths(obj.items[i][2], Append(path, Str(StrOf(obj.items[i][1])))) :
                               i \in DOMAIN obj.items}
    ELSE IF obj.k \in {"list", "tuple"}
    THEN UNION {DocPaths(obj.items[i], Append(path, Str(StrOf(PyInt(i - 1))))) :
                   i \in DOMAIN obj.items}
    ELSE {}

\* path p is path q cut short
IsStrictPrefix(p, q) == Len(p) < Len(q) /\ SubSeq(q, 1, Len(p)) = p

RECURSIVE At(_, _)
\* the value found in the decoded value v by following the names rel, the names
\* of the values of a list being their places "0", "1", ...
At(v, rel) ==
    IF rel = <<>> THEN v
    ELSE IF v.k = "dict" THEN At(DictGet(v.items, rel[1]), Tail(rel))
    ELSE IF v.k = "list" /\ \E i \in DOMAIN v.items : Str(StrOf(PyInt(i - 1))) = rel[1]
    THEN At(v.items[CHOOSE i \in DOMAIN v.items : Str(StrOf(PyInt(i - 1))) = rel[1]], Tail(rel))
    ELSE None

\* the passes over the recreators the decode of the call made
Passes == DecodePasses(call.self, call.wire.b, 0)

\* C14: the recreators run exactly once for every document decoded (the root, every
\* nested document, every document that is an element of an array) and for nothing
\* else; the pass of a document comes after the passes of all documents within it,
\* and the mapping it is given holds, for every document within it, what that
\* document's own pass returned (looked up by the names, so in arrays named by their
\* indices); the root's pass is the last and gives the result.
C14_BottomUpRecreation ==
    call.op = "decode" =>
        LET log == Passes
        IN  /\ \A p, q \in DOMAIN log :
                   /\ log[p].arg.k = "dict"
                   /\ p # q => log[p].path # log[q].path
                   /\ IsStrictPrefix(log[p].path, log[q].path) =>
                          /\ q < p
                          /\ (/\ call.wire.fault.kind # "retag"
                              /\ \A r \in DOMAIN log : ~(/\ IsStrictPrefix(log[p].path, log[r].path)
                                                         /\ IsStrictPrefix(log[r].path, log[q].path)))
                             => At(log[p].arg, SubSeq(log[q].path, Len(log[p].path) + 1,
                                                      Len(log[q].path))) = log[q].ret
            /\ call.ret.ok =>
                   /\ log # <<>>
                   /\ log[Len(log)].path = <<>>
                   /\ log[Len(log)].ret = call.ret.val
            /\ (call.ret.ok /\ call.wire.fault.kind = "none") =>
                   {log[p].path : p \in DOMAIN log}
                       = DocPaths(Rewritten(call.wire.enc, call.wire.obj), <<>>)

\* a document in an array in a document, decoded with recreators: three passes or
\* more, that of the innermost document first
C14_Witness ==
    /\ call.op = "decode"
    /\ call.ret.ok
    /\ call.wire.fault.kind = "none"
    /\ call.self.recreators # <<>>
    /\ Len(Passes) >= 3
    /\ \E p \in DOMAIN Passes :
           /\ Len(Passes[p].path) = 2
           /\ Passes[p].ret # Passes[p].arg
           /\ At(Passes[Len(Passes)].arg, Passes[p].path) = Passes[p].ret

\* C15: with the transformer that writes every set as the document {'$set': [...]}
\* and the recreator that turns exactly these documents back into the set and
\* returns None for every other document, decoding the encoding of {k: x}, x a set,
\* gives a document whose field k is the set x.
C15_ExtensibilityRoundTrip ==
    (/\ call.op = "decode"
     /\ call.wire.fault.kind = "none"
     /\ \E i \in DOMAIN call.wire.enc.transformers :
            /\ call.wire.enc.transformers[i] = "transform_tagged_set"
            /\ \A j \in 1..(i - 1) : call.wire.enc.transformers[j] = "transform_none"
     /\ call.self.recreators # <<>>
     /\ call.self.recreators[1] = "recreate_tagged_set"
     /\ Len(call.wire.obj.items) = 1
     /\ call.wire.obj.items[1][2].k = "set")
    => call.ret = DecOk(call.wire.obj)

\* the outcome of decoding the document of the call as the encoder wrote it
Undamaged == decode(call.self, _encode_obj(call.wire.enc, call.wire.obj).chunk, 0).ret

\* C16: an encoded document whose final byte is replaced by a value other than
\* 0x00 makes decode fail with ValueError; a valid one (one the decoder decodes)
\* in which the terminator of an embedded document or array is replaced by such a
\* value makes it fail with ValueError too; and no document with a terminator
\* replaced is decoded.
C16_MalformedTerminator ==
    (/\ call.op = "decode"
     /\ call.wire.fault.kind = "poke"
     /\ call.wire.fault.at.role = "terminator")
    => /\ ~call.ret.ok
       /\ (call.wire.fault.at.depth = 0 \/ Undamaged.ok) => call.ret = Raise("ValueError")

\* the terminator of an embedded document or array replaced by 0x10, the tag of
\* an Int32
C16_Witness ==
    /\ call.op = "decode"
    /\ call.wire.fault.kind = "poke"
    /\ call.wire.fault.at.role = "terminator"
    /\ call.wire.fault.at.depth >= 1
    /\ call.wire.fault.val = 16
    /\ call.wire.b[call.wire.fault.at.pos] = 16
    /\ Undamaged.ok
    /\ call.ret = Raise("ValueError")

UnknownSubtype ==
    /\ call.op = "decode"
    /\ call.wire.fault.kind = "poke"
    /\ call.wire.fault.at.role = "subtype"
    /\ <<BSON_BINARY, call.wire.fault.val>> \notin DOMAIN call.self.decoder_map
    /\ <<BSON_BINARY, call.wire.fault.val>> \notin DOMAIN DfltDecoderMap

\* C18: a Binary element whose (tag, subtype) pair has no decode function in the
\* user-supplied or the default decoder table makes decode fail with ValueError.
C18_UnknownBinarySubtype == UnknownSubtype => call.ret = Raise("ValueError")

\* C18, amended: such an element makes decode fail and return no value; it fails
\* with ValueError when the decoder decodes the document as it was before the
\* subtype was replaced, and with the error of an element before the faulty one
\* otherwise.
C18_UnknownBinarySubtypeAmended ==
    UnknownSubtype =>
        /\ ~call.ret.ok
        /\ IF Undamaged.ok THEN call.ret = Raise("ValueError")
           ELSE call.ret \in {Undamaged, Raise("ValueError")}

\* the subtype Function (0x01), unknown to the defaults, on a Binary element in an
\* array, under a decoder that has no function for it either
C18_Witness ==
    /\ UnknownSubtype
    /\ call.wire.fault.val = 1
    /\ call.wire.fault.at.depth >= 1
    /\ call.wire.b[call.wire.fault.at.pos] = 1
    /\ Undamaged.ok
    /\ call.ret = Raise("ValueError")

\* C19: when the source holds fewer bytes than the length prefix of the root
\* document declares, so that a payload extends past the end of the bytes
\* available, decode fails with an error instead of returning a value.
C19_TruncatedInput ==
    (/\ call.op = "decode"
     /\ call.wire.fault.kind = "cut"
     /\ call.wire.fault.n >= 1)
    => ~call.ret.ok

RECURSIVE AsDocs(_)
\* obj with every list and tuple in it replaced by the document of its values
\* under the names "0", "1", ... (fewer than ten)
AsDocs(obj) ==
    IF obj.k = "dict"
    THEN Dict([i \in DOMAIN obj.items |-> <<obj.items[i][1], AsDocs(obj.items[i][2])>>])
    ELSE IF obj.k \in {"list", "tuple"}
    THEN Dict([i \in DOMAIN obj.items |-> <<Str(<<48 + i - 1>>), AsDocs(obj.items[i])>>])
    ELSE obj

RECURSIVE SumOf(_)
SumOf(ns) == IF ns = <<>> THEN 0 ELSE ns[1] + SumOf(Tail(ns))

RECURSIVE ArrayCount(_)
\* the number of lists and tuples in obj
ArrayCount(obj) ==
    IF obj.k = "dict" THEN SumOf([i \in DOMAIN obj.items |-> ArrayCount(obj.items[i][2])])
    ELSE IF obj.k \in {"list", "tuple"}
    THEN 1 + SumOf([i \in DOMAIN obj.items |-> ArrayCount(obj.items[i])])
    ELSE 0

\* what the decoder self makes of the value v when v is the only field of a
\* document written by enc
DecodedAlone(self, enc, v) ==
    decode(self, _encode_obj(enc, Dict(<<<<KeyA, v>>>>)).chunk, 0).ret.val.items[1][2]

RECURSIVE Expected(_, _, _)
\* the value a decoder without recreators is to return for v: mappings and
\* sequences of the values expected for their parts, sequences as lists
Expected(self, enc, v) ==
    IF v.k = "dict"
    THEN Dict([i \in DOMAIN v.items |-> <<v.items[i][1], Expected(self, enc, v.items[i][2])>>])
    ELSE IF v.k \in {"list", "tuple"}
    THEN List([i \in DOMAIN v.items |-> Expected(self, enc, v.items[i])])
    ELSE DecodedAlone(self, enc, v)

\* C20: a list or tuple of n values nested in a document is written with the tag
\* Array and otherwise byte for byte as the document of its values under the names
\* "0", "1", ..., "n-1" in that order; decoding gives, in the place of each, the
\* list of the n decoded values in the original order.
C20_ArrayWireForm ==
    (call.op = "decode" /\ call.wire.fault.kind = "none") =>
        LET enc  == call.wire.enc
            obj  == Rewritten(enc, call.wire.obj)
            b    == call.wire.b
            docs == _encode_obj(enc, AsDocs(obj)).chunk
            diff == {i \in DOMAIN b : b[i] # docs[i]}
        IN  /\ Len(b) = Len(docs)
            /\ \A i \in diff : b[i] = BSON_ARRAY /\ docs[i] = BSON_DOCUMENT
            /\ Cardinality(diff) = ArrayCount(obj)
            /\ (call.ret.ok /\ call.self.recreators = <<>>) =>
                   call.ret.val = Expected(call.self, enc, obj)

\* a tuple of three values and a list holding documents and an empty tuple, decoded
C20_Witness ==
    /\ call.op = "decode"
    /\ call.wire.fault.kind = "none"
    /\ call.self.recreators = <<>>
    /\ call.ret.ok
    /\ \E i \in DOMAIN call.wire.obj.items :
           /\ call.wire.obj.items[i][2].k = "tuple"
           /\ Len(call.wire.obj.items[i][2].items) = 3
           /\ call.ret.val.items[i][2].k = "list"
           /\ Len(call.ret.val.items[i][2].items) = 3
           /\ call.ret.val.items[i][2].items[2] = PyInt(2)

\* int(key) for a name of decimal digits
RECURSIVE NumOf(_)
NumOf(cp) == IF cp = <<>> THEN 0 ELSE 10 * NumOf(SubSeq(cp, 1, Len(cp) - 1)) + cp[Len(cp)] - 48

IsDigits(cp) == cp # <<>> /\ \A i \in DOMAIN cp : cp[i] \in 48..57

\* the values of the items (distinct names of digits), by the number each name denotes
ByNumericKey(items) ==
    LET rank(i) == 1 + Cardinality({j \in DOMAIN items :
                                       NumOf(items[j][1].cp) < NumOf(items[i][1].cp)})
    IN  [r \in DOMAIN items |-> items[CHOOSE i \in DOMAIN items : rank(i) = r][2]]

\* the place, among the elements of the root, of the element whose tag is at pos
ElementAt(b, pos) ==
    Cardinality({m \in MarksDoc(b, 0, 0) : m.role = "tag" /\ m.depth = 0 /\ m.pos <= pos})

\* C21: an element of the root tagged Array decodes to the sequence of its values
\* in the order of the numbers its names denote, whatever their order in the bytes:
\* sent as an array, the document {"1": x, "0": y} decodes to [y, x].
C21_ArrayDecodeOrder ==
    (/\ call.op = "decode"
     /\ call.wire.fault.kind = "retag"
     /\ call.wire.fault.at.depth = 0
     /\ call.self.recreators = <<>>
     /\ Undamaged.ok)
    => LET idx == ElementAt(call.wire.b, call.wire.fault.at.pos)
           doc == Undamaged.val.items[idx][2]
       IN  (\A i \in DOMAIN doc.items : IsDigits(doc.items[i][1].cp))
           => /\ call.ret.ok
              /\ call.ret.val.items[idx][2] = List(ByNumericKey(doc.items))

\* C22: when encode raises (invalid root, unsupported type or exponent overflow at
\* any depth) the stream holds what it held before the call, not one byte more; when
\* it returns, the stream holds that followed by the bytes of the one write, whose
\* number encode returns.
C22_FailedEncodeCommitsNothing ==
    call.op = "encode" =>
        /\ ~call.ret.ok => stream.data = call.before
        /\ call.ret.ok =>
               /\ Len(stream.data) = Len(call.before) + call.ret.n
               /\ SubSeq(stream.data, 1, Len(call.before)) = call.before

\* a stream that holds a document already; an encode that fails on the second field
\* of the root, at depth two or more, after the first field has been encoded
C22_Witness ==
    /\ call.op = "encode"
    /\ call.before # <<>>
    /\ stream.data = call.before
    /\ call.ret = Raise("ValueError")
    /\ call.arg.k = "dict"
    /\ Len(call.arg.items) = 2
    /\ _encode_obj(call.self, call.arg.items[1][2]).ok
    /\ call.arg.items[2][2].k = "dict"

\* C25: a datetime is written as the number of milliseconds of its UTC instant since
\* the epoch, and a datetime whose sub-second part is a whole number of milliseconds
\* decodes to a UTC datetime of the same instant, milliseconds included.
C25_DatetimeMilliseconds ==
    (/\ call.op = "loads"
     /\ Len(call.src.items) = 1
     /\ call.src.items[1][2].k = "datetime"
     /\ call.src.items[1][2].us % 1000 = 0)
    => LET v  == call.src.items[1][2]
           ms == (v.secs - v.utcoffset) * 1000 + v.us \div 1000
       IN  /\ SubSeq(call.arg, 8, 15) = pack_signed(PyInt(ms), 8).b
           /\ call.ret.ok
           /\ call.ret.val.items[1][2].k = "datetime"
           /\ call.ret.val.items[1][2].utcoffset = 0
           /\ call.ret.val.items[1][2].secs = v.secs - v.utcoffset
           /\ call.ret.val.items[1][2].us = v.us

\* C26: loads lists the keys of a document in the order of its elements in the
\* bytes, and for every document d that dumps encodes, dumps(loads(dumps(d))) is
\* dumps(d), byte for byte.
C26_ByteExactRoundTrip ==
    call.op = "loads" =>
        /\ call.ret.ok
        /\ [i \in DOMAIN call.ret.val.items |-> call.ret.val.items[i][1]]
               = [i \in DOMAIN call.src.items |-> Str(StrOf(call.src.items[i][1]))]
        /\ dumps(call.ret.val) = [ok |-> TRUE, b |-> call.arg]

RECURSIVE NameUnterminated(_, _)
\* the loop of self._decode_elems(buf), or of the decoding of an embedded document
\* or array within it, gets to an element with no zero byte after its tag
NameUnterminated(self, buf) ==
    IF Len(buf) = 0 THEN FALSE
    ELSE LET code == buf[1]
             n    == _parse_cstr(SliceFrom(buf, 1))
             p    == Parse(code, n.buf)
             fn   == _get_decoder(self, <<code>>).fn
         IN  \/ FindZero(SliceFrom(buf, 1)) = -1
             \/ /\ n.ok
                /\ p.ok
                /\ _get_decoder(self, <<code>>).ok
                /\ \/ fn \in {"_decode_obj", "_decode_array"} /\ NameUnterminated(self, p.bval)
                   \/ CallDecode(self, fn, p.bval).ok /\ NameUnterminated(self, p.buf)

\* C27: when the decoding of a document gets to an element whose tag byte is
\* followed by no zero byte, decode fails: it returns no value, so no element
\* named from bytes without a terminator, none whose payload is the name's bytes.
C27_UnterminatedName ==
    call.op = "decode" =>
        LET buf4   == Read(call.wire.b, 0, 4)
            nbytes == unpack_len(SliceTo(buf4, 4))
            buf    == Read(call.wire.b, Len(buf4), nbytes.n - 4)
        IN  (nbytes.ok /\ ~check_end_zero(buf) /\ NameUnterminated(call.self, SliceTo(buf, -1)))
            => ~call.ret.ok

\* C28: decode ends, with a value or an error, because its loops and its recursion
\* use up the bytes: every recursive call gets a shorter buffer than its caller, so
\* no decode recurses until the interpreter's stack is exhausted, whatever the
\* bytes, a Binary element with a negative length or without a subtype byte included.
C28_DecodeTerminates == call.op = "decode" => call.ret # Raise("RecursionError")

\* the length of the bytes of the first n documents written to the pipe
RECURSIVE SizeOfDocs(_)
SizeOfDocs(n) == IF n = 0 THEN 0 ELSE SizeOfDocs(n - 1) + Len(dumps(pipe.docs[n]).b)

\* C29: a load that succeeds has moved the stream by the length the prefix it read
\* declares, to the first byte after the document; and a load made where the k-th of
\* the documents written begins returns that document, so that N loads after N dumps
\* return the N documents in the order written.
C29_SequentialConsumption ==
    call.op = "load" /\ call.ret.ok =>
        /\ pipe.pos = call.before + unpack_len(SubSeq(pipe.data, call.before + 1,
                                                      call.before + 4)).n
        /\ call.at <= Len(pipe.docs) /\ call.before = SizeOfDocs(call.at - 1) =>
               call.ret = DecOk(pipe.docs[call.at])

\* C24: every encode and decode call returns what the instance returns as the
\* constructor made it of the map and the list it was given, whatever the caller
\* has done to that map and that list since.
C24_ConfigurationFixed ==
    /\ call.op = "encode_own" =>
           LET given == args.enc[call.i].given
               self  == BSONEncoder__init__(dflt_encoder_map, given.map, given.list).self
           IN  [ret |-> call.ret, data |-> call.data] = encode(self, call.arg, <<>>)
    /\ call.op = "decode_own" =>
           LET given == args.dec[call.j].given
               self  == BSONDecoder__init__(given.map, given.list)
           IN  [ret |-> call.ret, pos |-> call.pos] = decode(self, call.arg, 0)

\* C23: a call that ran on one thread while calls ran on the others, their steps
\* interleaved in any order, has returned or raised what the same call of the same
\* instance returns or raises alone, and has written the same bytes to its own
\* stream (encode) or left its own stream at the same position (decode).
C23_CallsDoNotInterfere ==
    \A t \in DOMAIN threads :
        threads[t].pc = "done" =>
            LET f == threads[t]
            IN  IF f.op = "encode"
                THEN [ret |-> f.ret, data |-> f.out] = encode(f.self, f.arg, <<>>)
                ELSE [ret |-> f.ret, pos |-> f.out] = decode(f.self, f.arg, 0)

\* an encode and a decode have both returned, each having taken steps while the
\* other was inside its call
C23_Witness ==
    \E t, u \in DOMAIN threads :
        /\ threads[t].pc = "done" /\ threads[t].op = "encode"
        /\ threads[u].pc = "done" /\ threads[u].op = "decode"
        /\ threads[t].mixed /\ threads[u].mixed
        /\ threads[t].ret.ok /\ threads[u].ret.ok
        /\ Len(threads[t].arg.items) = 2
        /\ threads[u].ret.val.k = "Wrapped"

\* C30: every encode call of a JSONEncoder is made with the module's built-in
\* functions and the functions given to that very instance: an encoder constructed
\* without overrides encodes a value with the built-in function for its kind or
\* rejects it, whatever other encoders were constructed with.
C30_JsonEncoderIsolation ==
    call.op = "json_encode" =>
        LET e == json_encoders[call.i]
        IN  call.ret = JSONEncoder_encode(e.given @@ ExtEncoderMap, e.self, call.arg)

====
